---------------------------- MODULE Spec2Model ----------------------------
(***************************************************************************)
(* A model of the feature composition engine of devcontainers-cli:         *)
(*   - the config merger      (src/src/spec-configuration/merge.ts)        *)
(*   - the features test command (src/unnamed/part_000)                    *)
(*   - the recipe synthesizer and build driver                             *)
(*                            (src/src/spec-node/containerFeatures.ts)     *)
(*                                                                         *)
(* JavaScript values are tagged tuples:                                    *)
(*   <<"undefined">>          undefined (an absent property reads as this) *)
(*   <<"num", n>>             a number                                     *)
(*   <<"arr", s>>             an array, s the sequence of its elements     *)
(*   <<"obj", k, v>>          the one-property object {[k]: v}             *)
(* A document is a sequence of <<key, value>> pairs in property order.     *)
(***************************************************************************)
EXTENDS Integers, Sequences, FiniteSets, TLC

VARIABLES
    \* ---- config merger ----
    docA,                   \* the first argument of the outer call, merge(a, .)
    docB,                   \* the second argument of the first call
    parentDocument,         \* parameters of the running ApplyMergeStrategyToDocuments
    childDocument,
    pass,                   \* 1: merge(a, b);  2: merge(a, merge(a, b))
    mpc,                    \* "idle", "loop", "settled"
    keysLeft,               \* the rest of UnionListOfDocumentKeys still to visit
    curKey,                 \* the key of the last ApplyMergeStrategyToObjects call
    outputValue,            \* its outputValue
    ResultingJSONDocument,  \* the local under construction
    merged1,                \* outcome of the promise of pass 1
    merged2,                \* outcome of the promise of pass 2
    \* ---- features test command ----
    commaSeparatedFeatures, \* the --features value, a string (sequence of characters)
    tpc,                    \* "start", "generate", "launch", "exit", "exited", "rejected"
    features,               \* const features = commaSeparatedFeatures.split(',')
    devcontainerJson,       \* the "features" keys of the generated devcontainer.json
    launched,               \* launch(options, disposables) has completed
    exitCode,               \* the argument of process.exit (-1: none yet)
    \* ---- recipe synthesizer and build driver ----
    featuresConfig,         \* what generateFeaturesConfig yields (NoConfig: undefined)
    useBuildKit,            \* params.useBuildKit
    imageName,              \* extendImage's imageName, passed on as baseName
    scriptFiles,            \* the bin/acquire and bin/configure files under dstFolder
    includeAllConfiguredFeatures,   \* the build flag of spec-utils/product
    multiStageBuildExploration,     \* the build flag of containerFeaturesConfiguration
    bpc,                    \* position of extendImage / getContainerFeaturesBuildInfo
    chains,                 \* per feature set, the reduce chain of the probes
    completionOrder,        \* the feature sets in the order their chains resolved
    buildStageScripts,      \* the result of the Promise.all over the chains
    featureBuildInfo,       \* what getContainerFeaturesBuildInfo returns
    pendingWrites,          \* the env-file writes started and not yet completed
    files,                  \* the files written under dstFolder: path -> content
    emptyTempDir,           \* "missing", "creating" (mkdirp running), "exists"
    dockerLog,              \* the builder invocations and their exits, in order
    extendResult,           \* what extendImage returns
    \* ---- identifier resolver ----
    identifier,             \* userFeature.id, a string (sequence of pieces)
    ppc,                    \* "start", "done"
    parsed,                 \* what parseFeatureIdentifier returned
    \* ---- several builds on one host ----
    hostBuildKit,           \* per build, params.useBuildKit
    hpc,                    \* per build, its position between the builder invocations
    imageTags,              \* the host's image store: tag -> the folder the image holds
    contentRead,            \* per build, the content its main build has read
    \* ---- updateRemoteUserUID ----
    uidParams,              \* the arguments and the host: see UidInputs
    upc,                    \* position of updateRemoteUserUID
    uidFiles,               \* tmpDockerfile and destDockerfile: "missing", "partial", "full"
    uidBuilds,              \* the builder invocations, their arguments
    uidResult               \* the returned image name, <<>> while there is none

mergeVars == <<docA, docB, parentDocument, childDocument, pass, mpc, keysLeft,
               curKey, outputValue, ResultingJSONDocument, merged1, merged2>>

testVars == <<commaSeparatedFeatures, tpc, features, devcontainerJson, launched, exitCode>>

buildInputs == <<featuresConfig, useBuildKit, imageName, scriptFiles,
                 includeAllConfiguredFeatures, multiStageBuildExploration>>

buildVars == <<buildInputs, bpc, chains, completionOrder, buildStageScripts,
               featureBuildInfo, pendingWrites, files, emptyTempDir, dockerLog,
               extendResult>>

parseVars == <<identifier, ppc, parsed>>

hostVars == <<hostBuildKit, hpc, imageTags, contentRead>>

uidVars == <<uidParams, upc, uidFiles, uidBuilds, uidResult>>

vars == <<mergeVars, testVars, buildVars, parseVars, hostVars, uidVars>>

\* What the actions of one component leave alone.
MergeFrame == UNCHANGED <<testVars, buildVars, parseVars, hostVars, uidVars>>
TestFrame == UNCHANGED <<mergeVars, buildVars, parseVars, hostVars, uidVars>>
BuildFrame == UNCHANGED <<mergeVars, testVars, parseVars, hostVars, uidVars>>
ParseFrame == UNCHANGED <<mergeVars, testVars, buildVars, hostVars, uidVars>>
HostFrame == UNCHANGED <<mergeVars, testVars, buildVars, parseVars, uidVars>>
UidFrame == UNCHANGED <<mergeVars, testVars, buildVars, parseVars, hostVars>>

-----------------------------------------------------------------------------
(* Bounds *)

MaxLen == 2         \* longest array in an input document
MaxElem == 3        \* array elements are the primitives 1..MaxElem
MaxCsvLen == 3      \* longest --features value
MaxFeatures == 2    \* most features in a FeaturesConfig, over all its feature sets
MaxEnv == 1         \* most containerEnv entries of a feature
MaxIdLen == 4       \* longest identifier drawn from all strings over Pieces
MaxBuilds == 2      \* most builds running on one host

-----------------------------------------------------------------------------
(* Generic helpers *)

Range(s) == {s[i] : i \in 1..Len(s)}

SeqsUpTo(S, n) == UNION {[1..m -> S] : m \in 0..n}

NoDup(s) == \A i, j \in 1..Len(s) : s[i] = s[j] => i = j

\* The position of the first occurrence of x in s (0 when absent).
FirstIdx(s, x) ==
    IF x \in Range(s) THEN CHOOSE i \in 1..Len(s) : s[i] = x /\ \A j \in 1..(i-1) : s[j] # x
    ELSE 0

-----------------------------------------------------------------------------
(* JavaScript values and documents *)

Undefined == <<"undefined">>
Num(n) == <<"num", n>>
Arr(s) == <<"arr", s>>
Obj1(k, v) == <<"obj", k, v>>

\* Array.isArray
IsArray(v) == v[1] = "arr"

\* Object.keys(doc)
ObjectKeys(doc) == [i \in 1..Len(doc) |-> doc[i][1]]

\* doc[key]: the property's value, undefined when the document has no such key
Get(doc, key) ==
    IF key \in Range(ObjectKeys(doc))
    THEN doc[FirstIdx(ObjectKeys(doc), key)][2]
    ELSE Undefined

\* doc[key] = value: overwrite in place, or append as the last property
Put(doc, key, value) ==
    IF key \in Range(ObjectKeys(doc))
    THEN [doc EXCEPT ![FirstIdx(ObjectKeys(doc), key)] = <<key, value>>]
    ELSE Append(doc, <<key, value>>)

\* [... new Set(s)]: the first occurrence of every element, in order of s
RECURSIVE SetSpread(_)
SetSpread(s) ==
    IF s = <<>> THEN <<>>
    ELSE LET front == SetSpread(SubSeq(s, 1, Len(s) - 1))
             last == s[Len(s)]
         IN  IF last \in Range(front) THEN front ELSE Append(front, last)

-----------------------------------------------------------------------------
(* merge.ts *)

REPLACE == "REPLACE"
SKIP == "SKIP"
MERGE == "MERGE"

\* buildExtendBehaviorTable(): the key -> behavior table.  Keys outside its
\* domain ("a" here) read as undefined.
ExtendBehaviorTable == [list |-> MERGE, keep |-> SKIP, image |-> REPLACE]

\* ExtendBehaviorTable[key]; a behavior is a string, and so is its absence.
NoBehavior == "undefined"

TableLookup(key) ==
    IF key \in DOMAIN ExtendBehaviorTable THEN ExtendBehaviorTable[key] ELSE NoBehavior

GetBehaviorTypeOrDefault(behavior) ==
    IF behavior = NoBehavior THEN REPLACE ELSE behavior

\* The outcome of a call is <<"ok", value>> or <<"throw">>.
Ok(v) == <<"ok", v>>
Throw == <<"throw">>

MutUnionNoDedup(obj1, obj2) ==
    IF IsArray(obj1) /\ IsArray(obj2)
    THEN Ok(Arr(obj1[2] \o obj2[2]))
    ELSE Throw

MutUnionNoThrow(obj1, obj2) ==
    IF IsArray(obj1) /\ IsArray(obj2)
    THEN Ok(Arr(SetSpread(obj1[2] \o obj2[2])))
    ELSE Ok(obj2)

CheckValidityAndReturnUnionArray(obj1, obj2) ==
    IF IsArray(obj1) /\ IsArray(obj2)
    THEN Ok(Arr(SetSpread(obj1[2] \o obj2[2])))
    ELSE Throw

\* The value bound to outputValue by the switch.
StrategyOutput(parentValue, childValue, strategy) ==
    CASE strategy = REPLACE -> Ok(childValue)
      [] strategy = SKIP -> Ok(parentValue)
      [] strategy = MERGE -> CheckValidityAndReturnUnionArray(parentValue, childValue)

\* ApplyMergeStrategyToObjects returns outputJSON = {[key]: outputValue}.
ApplyMergeStrategyToObjects(key, parentValue, childValue, strategy) ==
    LET out == StrategyOutput(parentValue, childValue, strategy)
    IN  IF out = Throw THEN Throw ELSE Ok(Obj1(key, out[2]))

\* [... new Set([...Object.keys(parentDocument), ...Object.keys(childDocument)])]
UnionListOfDocumentKeys(parentDoc, childDoc) ==
    SetSpread(ObjectKeys(parentDoc) \o ObjectKeys(childDoc))

Pending == <<"pending">>
Rejected == <<"rejected">>
Resolved(doc) == <<"resolved", doc>>

\* ---- inputs ----

Elems == 1..MaxElem
Arrays == {Arr(s) : s \in SeqsUpTo(Elems, MaxLen)}
Scalars == {Num(1), Num(2)}
Absent == <<"absent">>

\* The values a key may hold in an input document (Absent: no such key).
ParentValuesOf(key) ==
    CASE key = "a" -> {Absent, Num(1)}
      [] key = "image" -> {Absent, Num(1)}
      [] key = "list" -> {Absent, Num(1)} \cup Arrays
      [] key = "keep" -> {Absent, Num(1)}

ChildValuesOf(key) ==
    CASE key = "a" -> {Absent} \cup Scalars
      [] key = "image" -> {Absent, Num(2)}
      [] key = "list" -> {Absent, Num(1)} \cup Arrays
      [] key = "keep" -> {Absent, Num(2)}

KeyOrder == <<"a", "image", "list", "keep">>

RECURSIVE MkDoc(_, _)
MkDoc(choice, i) ==
    IF i > Len(KeyOrder) THEN <<>>
    ELSE IF choice[KeyOrder[i]] = Absent THEN MkDoc(choice, i + 1)
         ELSE <<<<KeyOrder[i], choice[KeyOrder[i]]>>>> \o MkDoc(choice, i + 1)

ParentDocs == {MkDoc(c, 1) : c \in [a : ParentValuesOf("a"), image : ParentValuesOf("image"),
                                    list : ParentValuesOf("list"), keep : ParentValuesOf("keep")]}
ChildDocs == {MkDoc(c, 1) : c \in [a : ChildValuesOf("a"), image : ChildValuesOf("image"),
                                   list : ChildValuesOf("list"), keep : ChildValuesOf("keep")]}

BehaviorOf(key) == GetBehaviorTypeOrDefault(TableLookup(key))

AllReplace(doc) == \A k \in Range(ObjectKeys(doc)) : BehaviorOf(k) = REPLACE

\* ---- the state machine of ApplyMergeStrategyToDocuments ----

MergeStart ==
    /\ docA \in ParentDocs
    /\ docB \in ChildDocs
    /\ parentDocument = <<>>
    /\ childDocument = <<>>
    /\ pass = 1
    /\ mpc = "idle"
    /\ keysLeft = <<>>
    /\ curKey = ""
    /\ outputValue = Undefined
    /\ ResultingJSONDocument = <<>>
    /\ merged1 = Pending
    /\ merged2 = Pending

\* merge.ts 28-32: the first call, merge(a, b)
MergeCall1 ==
    /\ MergeFrame
    /\ mpc = "idle" /\ pass = 1 /\ merged1 = Pending
    /\ parentDocument' = docA
    /\ childDocument' = docB
    /\ keysLeft' = UnionListOfDocumentKeys(docA, docB)
    /\ ResultingJSONDocument' = <<>>
    /\ mpc' = "loop"
    /\ UNCHANGED <<docA, docB, pass, curKey, outputValue, merged1, merged2>>

\* merge.ts 28-32: the second call, merge(a, merge(a, b)), made once the
\* first has resolved, for documents whose keys all have REPLACE behavior
MergeCall2 ==
    /\ MergeFrame
    /\ mpc = "settled" /\ pass = 1 /\ merged1[1] = "resolved"
    /\ AllReplace(docA) /\ AllReplace(docB)
    /\ pass' = 2
    /\ parentDocument' = docA
    /\ childDocument' = merged1[2]
    /\ keysLeft' = UnionListOfDocumentKeys(docA, merged1[2])
    /\ ResultingJSONDocument' = <<>>
    /\ mpc' = "loop"
    /\ UNCHANGED <<docA, docB, curKey, outputValue, merged1, merged2>>

Settle(outcome) ==
    /\ mpc' = "settled"
    /\ IF pass = 1 THEN merged1' = outcome /\ UNCHANGED merged2
                   ELSE merged2' = outcome /\ UNCHANGED merged1

\* merge.ts 34-49: one iteration of the loop; a throw rejects the promise
MergeKey ==
    /\ MergeFrame
    /\ mpc = "loop" /\ keysLeft # <<>>
    /\ LET key == Head(keysLeft)
           strategy == GetBehaviorTypeOrDefault(TableLookup(key))
           pv == Get(parentDocument, key)
           cv == Get(childDocument, key)
           out == StrategyOutput(pv, cv, strategy)
           ret == ApplyMergeStrategyToObjects(key, pv, cv, strategy)
       IN  /\ curKey' = key
           /\ IF ret = Throw
              THEN /\ Settle(Rejected)
                   /\ outputValue' = Undefined
                   /\ UNCHANGED <<keysLeft, ResultingJSONDocument>>
              ELSE /\ outputValue' = out[2]
                   /\ ResultingJSONDocument' = Put(ResultingJSONDocument, key, ret[2])
                   /\ keysLeft' = Tail(keysLeft)
                   /\ UNCHANGED <<mpc, merged1, merged2>>
    /\ UNCHANGED <<docA, docB, parentDocument, childDocument, pass>>

\* merge.ts 51: return ResultingJSONDocument
MergeReturn ==
    /\ MergeFrame
    /\ mpc = "loop" /\ keysLeft = <<>>
    /\ Settle(Resolved(ResultingJSONDocument))
    /\ UNCHANGED <<docA, docB, parentDocument, childDocument, pass, keysLeft,
                   curKey, outputValue, ResultingJSONDocument>>

\* No merge is in progress (the specifications of the other components).
MergeIdle ==
    /\ docA = <<>> /\ docB = <<>>
    /\ parentDocument = <<>> /\ childDocument = <<>>
    /\ pass = 1 /\ mpc = "settled"
    /\ keysLeft = <<>> /\ curKey = "" /\ outputValue = Undefined
    /\ ResultingJSONDocument = <<>>
    /\ merged1 = Rejected /\ merged2 = Pending

-----------------------------------------------------------------------------
(* The features test command (src/unnamed/part_000) *)

Chars == {",", "a", "b"}

\* s.split(','): the segments between the commas; '' splits into [''].
RECURSIVE Split(_)
Split(s) ==
    IF s = <<>> THEN << <<>> >>
    ELSE LET rest == Split(Tail(s))
         IN  IF Head(s) = ","
             THEN << <<>> >> \o rest
             ELSE << <<Head(s)>> \o Head(rest) >> \o Tail(rest)

\* line 24: commaSeparatedFeatures.split(',')
SplitFeatures(s) == Split(s)

pathToCollection == <<"c">>

\* generateProject, lines 110-112: the key `${basePathToCollection}/${x}` of
\* each entry of the "features" mapping
FeatureKeys(featuresToTest) ==
    [i \in 1..Len(featuresToTest) |-> pathToCollection \o <<"/">> \o featuresToTest[i]]

NoExit == -1

TestStart ==
    /\ commaSeparatedFeatures \in SeqsUpTo(Chars, MaxCsvLen)
    /\ tpc = "start"
    /\ features = <<>>
    /\ devcontainerJson = <<>>
    /\ launched = FALSE
    /\ exitCode = NoExit

TestIdle ==
    /\ commaSeparatedFeatures = <<>>
    /\ tpc = "exited"
    /\ features = <<>>
    /\ devcontainerJson = <<>>
    /\ launched = FALSE
    /\ exitCode = 1

\* lines 24-29: split, and exit(1) on an empty list
TestSplit ==
    /\ TestFrame
    /\ tpc = "start"
    /\ features' = SplitFeatures(commaSeparatedFeatures)
    /\ IF Len(features') = 0
       THEN tpc' = "exited" /\ exitCode' = 1
       ELSE tpc' = "generate" /\ UNCHANGED exitCode
    /\ UNCHANGED <<commaSeparatedFeatures, devcontainerJson, launched>>

\* lines 32-37 and 102-121: generateProject writes devcontainer.json
TestGenerateProject ==
    /\ TestFrame
    /\ tpc = "generate"
    /\ devcontainerJson' = FeatureKeys(features)
    /\ tpc' = "launch"
    /\ UNCHANGED <<commaSeparatedFeatures, features, launched, exitCode>>

\* line 76: await launch(options, disposables) completes
TestLaunchDone ==
    /\ TestFrame
    /\ tpc = "launch"
    /\ launched' = TRUE
    /\ tpc' = "exit"
    /\ UNCHANGED <<commaSeparatedFeatures, features, devcontainerJson, exitCode>>

\* line 76: launch throws (a build failure); the command's promise is
\* rejected and process.exit(0) is not reached
TestLaunchThrows ==
    /\ TestFrame
    /\ tpc = "launch"
    /\ tpc' = "rejected"
    /\ UNCHANGED <<commaSeparatedFeatures, features, devcontainerJson, launched, exitCode>>

\* line 84: process.exit(0)
TestExit ==
    /\ TestFrame
    /\ tpc = "exit"
    /\ exitCode' = 0
    /\ tpc' = "exited"
    /\ UNCHANGED <<commaSeparatedFeatures, features, devcontainerJson, launched>>


-----------------------------------------------------------------------------
(* Text: a string with line breaks is the sequence of its lines, a line the *)
(* sequence of its tokens. '' is the one empty line.                        *)

EmptyText == << <<>> >>
Line(tokens) == << tokens >>
NL == << <<>>, <<>> >>              \* '\n'
NLNL == << <<>>, <<>>, <<>> >>      \* '\n\n'

\* t1 + t2: the last line of t1 runs on into the first line of t2
TextConcat(t1, t2) ==
    SubSeq(t1, 1, Len(t1) - 1) \o << t1[Len(t1)] \o t2[1] >> \o Tail(t2)

\* texts.join(sep)
RECURSIVE Join(_, _)
Join(texts, sep) ==
    IF texts = <<>> THEN EmptyText
    ELSE IF Len(texts) = 1 THEN texts[1]
    ELSE TextConcat(TextConcat(texts[1], sep), Join(Tail(texts), sep))

\* ([] as T[]).concat(...lists)
RECURSIVE Flatten(_)
Flatten(lists) ==
    IF lists = <<>> THEN <<>> ELSE Head(lists) \o Flatten(Tail(lists))

MapSeq(s, Op(_)) == [i \in 1..Len(s) |-> Op(s[i])]

-----------------------------------------------------------------------------
(* containerFeatures.ts: the data *)

\* generateFeaturesConfig yielded undefined
NoConfig == [defined |-> FALSE, featureSets |-> <<>>, dstFolder |-> ""]

LocalCache ==
    [type |-> "local-cache", owner |-> "", repo |-> "", tag |-> "", isLatest |-> FALSE]
GitHubLatest ==
    [type |-> "github-repo", owner |-> "bob", repo |-> "mobileapp", tag |-> "", isLatest |-> TRUE]

\* getSourceInfoString, as its tests fix it
getSourceInfoString(srcInfo) ==
    IF srcInfo.type = "local-cache" THEN "local-cache"
    ELSE "github-" \o srcInfo.owner \o "-" \o srcInfo.repo \o "-"
            \o (IF srcInfo.isLatest THEN "latest" ELSE srcInfo.tag)

\* if (f.value): a feature's value is a string here, '' the falsy one
Truthy(value) == value # ""

\* (includeAllConfiguredFeatures || f.included) && f.value
Selected(f) == (includeAllConfiguredFeatures \/ f.included) /\ Truthy(f.value)

\* path.posix.join on the segments used here: a '.' segment and a trailing
\* slash are normalized away
PosixSeg(seg) == IF seg = "/tmp/build-features/" THEN "/tmp/build-features" ELSE seg

RECURSIVE JoinSlash(_)
JoinSlash(segs) ==
    IF Len(segs) = 1 THEN PosixSeg(segs[1])
    ELSE IF segs[1] = "." THEN JoinSlash(Tail(segs))
    ELSE PosixSeg(segs[1]) \o "/" \o JoinSlash(Tail(segs))

PosixJoin(segs) == JoinSlash(segs)

\* cliHost.isFile(cliHost.path.join(binPath, script))
IsFile(sourceInfoString, id, script) == <<sourceInfoString, id, script>> \in scriptFiles

\* buildStageScripts[i][f.id]?.hasAcquire
HasAcquire(scripts, i, id) == id \in DOMAIN scripts[i] /\ scripts[i][id].hasAcquire
\* buildStageScripts[i][f.id]?.hasConfigure
HasConfigure(scripts, i, id) == id \in DOMAIN scripts[i] /\ scripts[i][id].hasConfigure

-----------------------------------------------------------------------------
(* containerFeatures.ts: the pure functions of the recipe *)

EnvLine(entry) == Line(<<"ENV ", entry[1], "=", entry[2]>>)

\* lines 106-110: the ENV lines of one feature set, joined by '\n'
ContainerEnvsOfSet(fSet) ==
    Join(Flatten(MapSeq(SelectSeq(fSet.features, Selected),
                        LAMBDA f : MapSeq(f.containerEnv, EnvLine))), NL)

\* lines 103-113: result += ..., once per feature set
RECURSIVE ContainerEnvsFrom(_, _)
ContainerEnvsFrom(result, featureSets) ==
    IF featureSets = <<>> THEN result
    ELSE ContainerEnvsFrom(TextConcat(result, ContainerEnvsOfSet(Head(featureSets))),
                           Tail(featureSets))

generateContainerEnvs(config) == ContainerEnvsFrom(EmptyText, config.featureSets)

StageName(featureSet, f) == getSourceInfoString(featureSet.sourceInformation) \o "_" \o f.id

\* lines 263-266: one build stage
BuildStage(featureSet, f, contentSourceRootPath) ==
    LET src == getSourceInfoString(featureSet.sourceInformation)
    IN  << <<"FROM ", "mcr.microsoft.com/vscode/devcontainers/base:0-focal", " as ",
             StageName(featureSet, f)>>,
           <<"COPY --from=", "dev_containers_feature_content_source", " ",
             PosixJoin(<<contentSourceRootPath, src, "features", f.id>>), " ",
             PosixJoin(<<"/tmp/build-features", src, "features", f.id>>)>>,
           <<"COPY --from=", "dev_containers_feature_content_source", " ",
             PosixJoin(<<contentSourceRootPath, src, "common">>), " ",
             PosixJoin(<<"/tmp/build-features", src, "common">>)>>,
           <<"RUN cd ", PosixJoin(<<"/tmp/build-features", src, "features", f.id>>),
             " && set -a && . ./devcontainer-features.env && set +a && ", "./bin/acquire">> >>

\* lines 262 and 275: the features of set i that get a stage
StageFeatures(config, scripts, i) ==
    SelectSeq(config.featureSets[i].features,
              LAMBDA f : Selected(f) /\ HasAcquire(scripts, i, f.id))

\* lines 259-270
getFeatureBuildStages(config, scripts, contentSourceRootPath) ==
    Join(Flatten([i \in 1..Len(config.featureSets) |->
                    MapSeq(StageFeatures(config, scripts, i),
                           LAMBDA f : BuildStage(config.featureSets[i], f, contentSourceRootPath))]),
         NLNL)

\* lines 277-279: one copy entry, with its RUN line when there is a configure script
CopyStage(featureSet, f, hasConfigure) ==
    LET src == getSourceInfoString(featureSet.sourceInformation)
        featurePath == PosixJoin(<<"/usr/local/devcontainer-features", src, f.id>>)
    IN  << <<"COPY --from=", StageName(featureSet, f), " ", featurePath, " ", featurePath>> >>
        \o (IF hasConfigure
            THEN << <<"RUN cd ", PosixJoin(<<"/tmp/build-features", src, "features", f.id>>),
                      " && set -a && . ./devcontainer-features.env && set +a && ",
                      "./bin/configure">> >>
            ELSE <<>>)

MutCopyOnlyConfigured(config, scripts) ==
    Join(Flatten([i \in 1..Len(config.featureSets) |->
                    MapSeq(SelectSeq(StageFeatures(config, scripts, i),
                                     LAMBDA f : HasConfigure(scripts, i, f.id)),
                           LAMBDA f : CopyStage(config.featureSets[i], f, TRUE))]),
         NLNL)

\* lines 272-283
getCopyFeatureBuildStages(config, scripts) ==
    Join(Flatten([i \in 1..Len(config.featureSets) |->
                    MapSeq(StageFeatures(config, scripts, i),
                           LAMBDA f : CopyStage(config.featureSets[i], f,
                                                HasConfigure(scripts, i, f.id)))]),
         NLNL)

-----------------------------------------------------------------------------
(* containerFeatures.ts: extendImage and getContainerFeaturesBuildInfo *)

DefaultBaseImage == "mcr.microsoft.com/vscode/devcontainers/base:buster"
buildContentImageName == "dev_container_feature_content_temp"
folderImageName == "vsc-ws"
ImageNames == {DefaultBaseImage, "vsc-ws-img"}

\* imageName.startsWith(folderImageName)
StartsWithFolderImageName(name) == name = "vsc-ws-img"

\* (await imageDetails()).Config.User || 'root'
imageUser == "root"

\* line 185
ContentSourceRootPath(buildKit) == IF buildKit THEN "." ELSE "/tmp/build-features/"

\* lines 186-193: the sections spliced into the base Dockerfile template
\* (the feature layer of getFeatureLayers is left out)
DockerfileContent(config, scripts, buildKit) ==
    [nonBuildKitFeatureContentFallback |->
        IF buildKit THEN EmptyText
        ELSE Line(<<"FROM ", buildContentImageName, " as ", "dev_containers_feature_content_source">>),
     contentSourceRootPath |-> ContentSourceRootPath(buildKit),
     featureBuildStages |-> getFeatureBuildStages(config, scripts, ContentSourceRootPath(buildKit)),
     containerEnv |-> generateContainerEnvs(config),
     copyFeatureBuildStages |-> getCopyFeatureBuildStages(config, scripts)]

SyntaxDirective == "# syntax=docker/dockerfile:1.4"

MutPrefixAlwaysDirective(buildKit) ==
    << <<SyntaxDirective>>,
       <<"ARG ", "_DEV_CONTAINERS_BASE_IMAGE", "=", DefaultBaseImage>>,
       <<>> >>

\* lines 194-196
DockerfilePrefixContent(buildKit) ==
    << IF buildKit THEN <<SyntaxDirective>> ELSE <<>>,
       <<"ARG ", "_DEV_CONTAINERS_BASE_IMAGE", "=", DefaultBaseImage>>,
       <<>> >>

\* lines 250-254
BuildArgs(baseName, user) ==
    << <<"_DEV_CONTAINERS_BASE_IMAGE", baseName>>,
       <<"_DEV_CONTAINERS_IMAGE_USER", user>>,
       <<"_DEV_CONTAINERS_FEATURE_CONTENT_SOURCE", buildContentImageName>> >>

MutBuildKitContextsNone(buildKit, dstFolder) == <<>>

\* line 255
BuildKitContexts(buildKit, dstFolder) ==
    IF buildKit THEN << <<"dev_containers_feature_content_source", dstFolder>> >> ELSE <<>>

\* getFeatureSafeId, lines 300-304, on the ids of this model
getFeatureSafeId(f) == IF f.id = "x" THEN "X" ELSE "Y_Z"

\* lines 285-298, for a feature whose value object is {version: f.value}
\* and that declares no buildArg
getFeatureEnvVariables(f) ==
    << <<"_BUILD_ARG_", getFeatureSafeId(f), "_", "VERSION", "=\"", f.value, "\"">>,
       <<"_BUILD_ARG_", getFeatureSafeId(f), "=true">> >>

MutSetEnvWriteAll(config, scripts, i) ==
    LET featureSet == config.featureSets[i]
    IN  [set |-> i, feature |-> 0,
         path |-> <<config.dstFolder, getSourceInfoString(featureSet.sourceInformation),
                    "devcontainer-features.env">>,
         content |-> Flatten(MapSeq(SelectSeq(featureSet.features, Selected),
                                    getFeatureEnvVariables))]

\* lines 201-206 and 208: the write of the env file of feature set i
SetEnvWrite(config, scripts, i) ==
    LET featureSet == config.featureSets[i]
    IN  [set |-> i, feature |-> 0,
         path |-> <<config.dstFolder, getSourceInfoString(featureSet.sourceInformation),
                    "devcontainer-features.env">>,
         content |-> Flatten(MapSeq(SelectSeq(featureSet.features,
                                              LAMBDA f : Selected(f) /\ ~HasAcquire(scripts, i, f.id)),
                                    getFeatureEnvVariables))]

\* lines 209-219: the writes of the env files of the features of set i that
\* have an acquire script
FeatureEnvWrites(config, scripts, i) ==
    LET featureSet == config.featureSets[i]
        src == getSourceInfoString(featureSet.sourceInformation)
    IN  {[set |-> i, feature |-> j,
          path |-> <<config.dstFolder, src, "features", featureSet.features[j].id,
                     "devcontainer-features.env">>,
          content |-> getFeatureEnvVariables(featureSet.features[j])
                      \o << <<"_BUILD_ARG_", getFeatureSafeId(featureSet.features[j]),
                              "_TARGETPATH=",
                              PosixJoin(<<"/usr/local/devcontainer-features", src,
                                          featureSet.features[j].id>>)>> >>] :
            j \in {k \in 1..Len(featureSet.features) :
                      /\ Selected(featureSet.features[k])
                      /\ HasAcquire(scripts, i, featureSet.features[k].id)}}

\* lines 200-221: every write the two nested Promise.all start
EnvWrites(config, scripts) ==
    UNION {{SetEnvWrite(config, scripts, i)} \cup FeatureEnvWrites(config, scripts, i) :
              i \in 1..Len(config.featureSets)}

\* lines 162-175: the reduce chain of feature set i as it is started
NewChain(featureSet) ==
    LET sel == IF multiStageBuildExploration
               THEN SelectSeq(featureSet.features, Selected) ELSE <<>>
    IN  [src |-> getSourceInfoString(featureSet.sourceInformation),
         sel |-> sel, pos |-> 1, phase |-> "acquire", hasAcquire |-> FALSE,
         map |-> <<>>, done |-> sel = <<>>]

MutPromiseAllByCompletion(chs, order) == [i \in 1..Len(chs) |-> chs[order[i]].map]

\* line 162: Promise.all keeps the order of its argument
PromiseAllResult(chs, order) == [i \in 1..Len(chs) |-> chs[i].map]

\* line 47
UpdatedImageName(name) ==
    (IF StartsWithFolderImageName(name) THEN name ELSE folderImageName) \o "-features"

EmptyTempDirPath == "/tmp/__dev-containers-build-empty"
DockerfileExtendedPath(dstFolder) == <<dstFolder, "Dockerfile.extended">>
BuildContentDockerfilePath(dstFolder) == <<dstFolder, "Dockerfile.buildContent">>

\* lines 49-75
MainBuildArgs(info, buildKit, name) ==
    (IF buildKit
     THEN <<"buildx", "build", "--load">>
          \o Flatten(MapSeq(info.buildKitContexts,
                            LAMBDA c : <<"--build-context", c[1] \o "=" \o c[2]>>))
     ELSE <<"build">>)
    \o Flatten(MapSeq(info.buildArgs, LAMBDA a : <<"--build-arg", a[1] \o "=" \o a[2]>>))
    \o <<"-t", UpdatedImageName(name), "-f", info.dstFolder \o "/Dockerfile.extended",
         EmptyTempDirPath>>

\* lines 231-236
BuildContentArgs(dstFolder) ==
    <<"build", "-t", buildContentImageName, "-f", dstFolder \o "/Dockerfile.buildContent",
      dstFolder>>

NoInfo == "null"
NoResult == [updatedImageName |-> "", collapsedFeaturesConfig |-> "undefined"]

\* map[feature.id] = entry
MapPut(map, id, entry) ==
    [k \in DOMAIN map \cup {id} |-> IF k = id THEN entry ELSE map[k]]

\* lines 166-169: the await of hasAcquire resumes
ChainAfterAcquire(ch) ==
    [ch EXCEPT !.hasAcquire = IsFile(ch.src, ch.sel[ch.pos].id, "acquire"),
               !.phase = "configure"]

\* lines 170-174: the await of hasConfigure resumes and the entry is stored
ChainAfterConfigure(ch) ==
    [ch EXCEPT !.map = MapPut(ch.map, ch.sel[ch.pos].id,
                              [hasAcquire |-> ch.hasAcquire,
                               hasConfigure |-> IsFile(ch.src, ch.sel[ch.pos].id, "configure")]),
               !.pos = ch.pos + 1,
               !.phase = "acquire",
               !.hasAcquire = FALSE,
               !.done = (ch.pos = Len(ch.sel))]

\* lines 162-175 with no interleaving: the chain run to its end
RECURSIVE RunChain(_)
RunChain(ch) ==
    IF ch.done THEN ch ELSE RunChain(ChainAfterConfigure(ChainAfterAcquire(ch)))

\* ---- inputs ----

Ids == {"x", "y-z"}
Sources == {LocalCache, GitHubLatest}
DstFolder == "/tmp/vsch/container-features/1"
EnvEntries == <<<<"A", "1">>, <<"B", "2">>, <<"C", "3">>>>
ContainerEnvs == {SubSeq(EnvEntries, 1, n) : n \in 0..MaxEnv}

\* The feature sets of a config with n features in all, no set empty.
RECURSIVE FeatureSetsWithTotal(_, _)
FeatureSetsWithTotal(Kinds, n) ==
    IF n = 0 THEN {<<>>}
    ELSE UNION {{<<[sourceInformation |-> src, features |-> fs]>> \o rest :
                    src \in Sources, fs \in [1..m -> Kinds],
                    rest \in FeatureSetsWithTotal(Kinds, n - m)} : m \in 1..n}

Configs(Kinds, dstFolders) ==
    {NoConfig} \cup
    {[defined |-> TRUE, featureSets |-> fss, dstFolder |-> d] :
        fss \in UNION {FeatureSetsWithTotal(Kinds, n) : n \in 0..MaxFeatures},
        d \in dstFolders}

UsedPaths(config) ==
    UNION {{<<getSourceInfoString(config.featureSets[i].sourceInformation),
              config.featureSets[i].features[j].id>> :
               j \in 1..Len(config.featureSets[i].features)} :
              i \in 1..Len(config.featureSets)}

\* The payloads on disk: a feature directory holds no script, bin/acquire, or
\* bin/acquire and bin/configure.
PayloadKinds == {"none", "acquire", "both"}

DiskChoices(config, payloads) ==
    {UNION {IF sc[p] = "none" THEN {}
            ELSE IF sc[p] = "acquire" THEN {<<p[1], p[2], "acquire">>}
            ELSE {<<p[1], p[2], "acquire">>, <<p[1], p[2], "configure">>} :
               p \in UsedPaths(config)} :
        sc \in [UsedPaths(config) -> payloads]}

\* ---- the state machine ----

BuildStart(configs, buildKits, names, includeAlls, multiStages, payloads) ==
    /\ featuresConfig \in configs
    /\ useBuildKit \in buildKits
    /\ imageName \in names
    /\ scriptFiles \in DiskChoices(featuresConfig, payloads)
    /\ includeAllConfiguredFeatures \in includeAlls
    /\ multiStageBuildExploration \in multiStages
    /\ bpc = "start"
    /\ chains = <<>>
    /\ completionOrder = <<>>
    /\ buildStageScripts = <<>>
    /\ featureBuildInfo = NoInfo
    /\ pendingWrites = {}
    /\ files = <<>>
    /\ emptyTempDir = "missing"
    /\ dockerLog = <<>>
    /\ extendResult = NoResult

BuildIdle ==
    /\ featuresConfig = NoConfig
    /\ useBuildKit = FALSE
    /\ imageName = DefaultBaseImage
    /\ scriptFiles = {}
    /\ includeAllConfiguredFeatures = FALSE
    /\ multiStageBuildExploration = FALSE
    /\ bpc = "done"
    /\ chains = <<>>
    /\ completionOrder = <<>>
    /\ buildStageScripts = <<>>
    /\ featureBuildInfo = NoInfo
    /\ pendingWrites = {}
    /\ files = <<>>
    /\ emptyTempDir = "missing"
    /\ dockerLog = <<>>
    /\ extendResult = NoResult

MutExtendStartAlwaysBuilds ==
    /\ BuildFrame
    /\ bpc = "start"
    /\ bpc' = "tar"
    /\ UNCHANGED <<buildInputs, chains, completionOrder, buildStageScripts,
                   featureBuildInfo, pendingWrites, files, emptyTempDir, dockerLog,
                   extendResult>>

\* lines 31-41, 87-99, 116-135: nothing to extend, or the copy of the local
\* cache starts
ExtendStart ==
    /\ BuildFrame
    /\ bpc = "start"
    /\ IF ~featuresConfig.defined \/ featuresConfig.dstFolder = ""
       THEN /\ bpc' = "done"
            /\ extendResult' = [updatedImageName |-> imageName,
                                collapsedFeaturesConfig |-> "undefined"]
       ELSE /\ bpc' = "tar"
            /\ UNCHANGED extendResult
    /\ UNCHANGED <<buildInputs, chains, completionOrder, buildStageScripts,
                   featureBuildInfo, pendingWrites, files, emptyTempDir, dockerLog>>

\* lines 159-175: the extraction has ended; every probe of every chain is started
TarDone ==
    /\ BuildFrame
    /\ bpc = "tar"
    /\ chains' = MapSeq(featuresConfig.featureSets, NewChain)
    /\ completionOrder' = SelectSeq([i \in 1..Len(featuresConfig.featureSets) |-> i],
                                    LAMBDA i : chains'[i].done)
    /\ bpc' = "probes"
    /\ UNCHANGED <<buildInputs, buildStageScripts, featureBuildInfo, pendingWrites,
                   files, emptyTempDir, dockerLog, extendResult>>

\* lines 159-160: tar fails, the error surfaces
TarFails ==
    /\ BuildFrame
    /\ bpc = "tar"
    /\ bpc' = "rejected"
    /\ UNCHANGED <<buildInputs, chains, completionOrder, buildStageScripts,
                   featureBuildInfo, pendingWrites, files, emptyTempDir, dockerLog,
                   extendResult>>

\* line 171: the acquire probe of the chain's current feature has answered
ChainAwaitAcquire(i) ==
    /\ BuildFrame
    /\ bpc = "probes"
    /\ ~chains[i].done /\ chains[i].phase = "acquire"
    /\ chains' = [chains EXCEPT ![i] = ChainAfterAcquire(chains[i])]
    /\ UNCHANGED <<buildInputs, bpc, completionOrder, buildStageScripts, featureBuildInfo,
                   pendingWrites, files, emptyTempDir, dockerLog, extendResult>>

\* lines 170-174: the configure probe has answered, the entry is stored
ChainAwaitConfigure(i) ==
    /\ BuildFrame
    /\ bpc = "probes"
    /\ ~chains[i].done /\ chains[i].phase = "configure"
    /\ chains' = [chains EXCEPT ![i] = ChainAfterConfigure(chains[i])]
    /\ completionOrder' = IF chains'[i].done THEN Append(completionOrder, i)
                          ELSE completionOrder
    /\ UNCHANGED <<buildInputs, bpc, buildStageScripts, featureBuildInfo,
                   pendingWrites, files, emptyTempDir, dockerLog, extendResult>>

\* lines 162, 177-221: the Promise.all of the chains resolves; the Dockerfile
\* and its prefix are computed and every env-file write is started
Synthesize ==
    /\ BuildFrame
    /\ bpc = "probes"
    /\ \A i \in 1..Len(chains) : chains[i].done
    /\ buildStageScripts' = PromiseAllResult(chains, completionOrder)
    /\ featureBuildInfo' =
          [dstFolder |-> featuresConfig.dstFolder,
           dockerfileContent |-> DockerfileContent(featuresConfig, buildStageScripts', useBuildKit),
           dockerfilePrefixContent |-> DockerfilePrefixContent(useBuildKit),
           buildArgs |-> BuildArgs(imageName, imageUser),
           buildKitContexts |-> BuildKitContexts(useBuildKit, featuresConfig.dstFolder)]
    /\ pendingWrites' = EnvWrites(featuresConfig, buildStageScripts')
    /\ bpc' = "envWrites"
    /\ UNCHANGED <<buildInputs, chains, completionOrder, files, emptyTempDir, dockerLog,
                   extendResult>>

\* cliHost.writeFile: the file holds the content once the write completes
FileWritten(fs, path, content) ==
    [q \in DOMAIN fs \cup {path} |-> IF q = path THEN content ELSE fs[q]]

\* lines 208 and 218: one env-file write completes
EnvWriteDone(w) ==
    /\ BuildFrame
    /\ bpc = "envWrites"
    /\ w \in pendingWrites
    /\ files' = FileWritten(files, w.path, w.content)
    /\ pendingWrites' = pendingWrites \ {w}
    /\ UNCHANGED <<buildInputs, bpc, chains, completionOrder, buildStageScripts,
                   featureBuildInfo, emptyTempDir, dockerLog, extendResult>>

MutEnvWritesNotJoined ==
    /\ BuildFrame
    /\ bpc = "envWrites"
    /\ bpc' = IF useBuildKit THEN "extendedFile" ELSE "contentFile"
    /\ UNCHANGED <<buildInputs, chains, completionOrder, buildStageScripts,
                   featureBuildInfo, pendingWrites, files, emptyTempDir, dockerLog,
                   extendResult>>

\* lines 200, 224-230 (legacy: the write of Dockerfile.buildContent starts)
\* and lines 246-256, 95-99, 41-45 (BuildKit: getContainerFeaturesBuildInfo
\* returns and the write of Dockerfile.extended starts)
EnvWritesJoined ==
    /\ BuildFrame
    /\ bpc = "envWrites"
    /\ pendingWrites = {}
    /\ bpc' = IF useBuildKit THEN "extendedFile" ELSE "contentFile"
    /\ UNCHANGED <<buildInputs, chains, completionOrder, buildStageScripts,
                   featureBuildInfo, pendingWrites, files, emptyTempDir, dockerLog,
                   extendResult>>

BuildContentDockerfile == << <<>>, <<"FROM scratch">>, <<"COPY . /tmp/build-features/">>, <<>> >>

\* lines 230-244: Dockerfile.buildContent is written, the content image build starts
ContentFileWritten ==
    /\ BuildFrame
    /\ bpc = "contentFile"
    /\ files' = FileWritten(files, BuildContentDockerfilePath(featureBuildInfo.dstFolder),
                            BuildContentDockerfile)
    /\ dockerLog' = Append(dockerLog, [ev |-> "start", what |-> "content",
                                        args |-> BuildContentArgs(featureBuildInfo.dstFolder)])
    /\ bpc' = "contentBuild"
    /\ UNCHANGED <<buildInputs, chains, completionOrder, buildStageScripts,
                   featureBuildInfo, pendingWrites, emptyTempDir, extendResult>>

\* lines 238-256, 95-99, 41-45: the content image is built;
\* getContainerFeaturesBuildInfo returns and the write of Dockerfile.extended starts
ContentBuildDone ==
    /\ BuildFrame
    /\ bpc = "contentBuild"
    /\ dockerLog' = Append(dockerLog, [ev |-> "exit", what |-> "content", args |-> <<"0">>])
    /\ bpc' = "extendedFile"
    /\ UNCHANGED <<buildInputs, chains, completionOrder, buildStageScripts,
                   featureBuildInfo, pendingWrites, files, emptyTempDir, extendResult>>

\* lines 238-244: the content image build fails, the error surfaces
ContentBuildFails ==
    /\ BuildFrame
    /\ bpc = "contentBuild"
    /\ dockerLog' = Append(dockerLog, [ev |-> "exit", what |-> "content", args |-> <<"1">>])
    /\ bpc' = "rejected"
    /\ UNCHANGED <<buildInputs, chains, completionOrder, buildStageScripts,
                   featureBuildInfo, pendingWrites, files, emptyTempDir, extendResult>>

\* lines 45-69: Dockerfile.extended is written; cliHost.tmpdir() is awaited
ExtendedFileWritten ==
    /\ BuildFrame
    /\ bpc = "extendedFile"
    /\ files' = FileWritten(files, DockerfileExtendedPath(featureBuildInfo.dstFolder),
                            [prefix |-> featureBuildInfo.dockerfilePrefixContent,
                             content |-> featureBuildInfo.dockerfileContent])
    /\ bpc' = "tmpdir"
    /\ UNCHANGED <<buildInputs, chains, completionOrder, buildStageScripts,
                   featureBuildInfo, pendingWrites, emptyTempDir, dockerLog, extendResult>>

\* lines 69-83: mkdirp is started and not awaited; the builder is invoked
MainBuildStart ==
    /\ BuildFrame
    /\ bpc = "tmpdir"
    /\ emptyTempDir' = "creating"
    /\ dockerLog' = Append(dockerLog, [ev |-> "start", what |-> "main",
                                        args |-> MainBuildArgs(featureBuildInfo, useBuildKit,
                                                               imageName)])
    /\ bpc' = "mainBuild"
    /\ UNCHANGED <<buildInputs, chains, completionOrder, buildStageScripts,
                   featureBuildInfo, pendingWrites, files, extendResult>>

\* line 70: the mkdirp started by extendImage completes
MkdirpDone ==
    /\ BuildFrame
    /\ emptyTempDir = "creating"
    /\ emptyTempDir' = "exists"
    /\ UNCHANGED <<buildInputs, bpc, chains, completionOrder, buildStageScripts,
                   featureBuildInfo, pendingWrites, files, dockerLog, extendResult>>

\* lines 77-84: the builder exits with 0; extendImage returns
MainBuildDone ==
    /\ BuildFrame
    /\ bpc = "mainBuild"
    /\ dockerLog' = Append(dockerLog, [ev |-> "exit", what |-> "main", args |-> <<"0">>])
    /\ extendResult' = [updatedImageName |-> UpdatedImageName(imageName),
                        collapsedFeaturesConfig |-> "defined"]
    /\ bpc' = "done"
    /\ UNCHANGED <<buildInputs, chains, completionOrder, buildStageScripts,
                   featureBuildInfo, pendingWrites, files, emptyTempDir>>

\* lines 77-83: the builder fails, the error surfaces
MainBuildFails ==
    /\ BuildFrame
    /\ bpc = "mainBuild"
    /\ dockerLog' = Append(dockerLog, [ev |-> "exit", what |-> "main", args |-> <<"1">>])
    /\ bpc' = "rejected"
    /\ UNCHANGED <<buildInputs, chains, completionOrder, buildStageScripts,
                   featureBuildInfo, pendingWrites, files, emptyTempDir, extendResult>>

-----------------------------------------------------------------------------
(* The identifier resolver. parseFeatureIdentifier is imported by the tests *)
(* of helpers.offline.test.ts; its rules are those of the design document,  *)
(* section 4.1, and the tests give its results on sixteen identifiers.      *)
(* An identifier is a sequence of pieces: a piece is a separator ("/", "@", *)
(* "#", "://", ".tgz", ".", "..") or a run of other characters.             *)

\* the pieces made only of characters of [A-Za-z0-9_-], not starting with '-'
IdPieces == {"h", "octocat", "myfeatures", "helloworld", "mycoolfeature", "some", "long",
             "path", "to", "https", "devcontainer-features", "MY_", "UPER_COOL_FEATURE"}

MutValidIdAny(id) == TRUE

\* the valid-id charset [A-Za-z0-9_][A-Za-z0-9_\-]*
ValidId(id) ==
    /\ id # <<>>
    /\ \A k \in 1..Len(id) : id[k] \in IdPieces \cup {"-"}
    /\ id[1] # "-"

\* The position of the last occurrence of x in s (0 when absent).
LastIdx(s, x) ==
    IF x \in Range(s) THEN CHOOSE i \in 1..Len(s) : s[i] = x /\ \A j \in (i+1)..Len(s) : s[j] # x
    ELSE 0

\* s.split(sep)
RECURSIVE SplitOn(_, _)
SplitOn(s, sep) ==
    IF s = <<>> THEN << <<>> >>
    ELSE LET rest == SplitOn(Tail(s), sep)
         IN  IF Head(s) = sep
             THEN << <<>> >> \o rest
             ELSE << <<Head(s)>> \o Head(rest) >> \o Tail(rest)

StartsWith(s, prefix) == Len(s) >= Len(prefix) /\ SubSeq(s, 1, Len(prefix)) = prefix

EndsWith(s, suffix) ==
    Len(s) >= Len(suffix) /\ SubSeq(s, Len(s) - Len(suffix) + 1, Len(s)) = suffix

\* a SourceInformation; a property that the variant does not have is <<>>
Source(type) ==
    [type |-> type, owner |-> <<>>, repo |-> <<>>, tag |-> <<>>, isLatest |-> <<>>,
     apiUri |-> <<>>, unauthenticatedUri |-> <<>>, tarballUri |-> <<>>, isRelative |-> <<>>]

LocalCacheSource == Source("local-cache")

ApiRepos(owner, repo) ==
    <<"https", "://", "api.github.com", "/", "repos", "/">> \o owner \o <<"/">> \o repo

GitHubRepo(owner, repo) ==
    <<"https", "://", "github.com", "/">> \o owner \o <<"/">> \o repo

MutGitHubAlwaysLatest(owner, repo, tag) ==
    [Source("github-repo") EXCEPT
        !.owner = owner, !.repo = repo, !.tag = tag, !.isLatest = <<TRUE>>,
        !.apiUri = ApiRepos(owner, repo) \o <<"/", "releases", "/", "latest">>,
        !.unauthenticatedUri =
            GitHubRepo(owner, repo) \o <<"/", "releases", "/", "latest", "/", "download", "/",
                                         "devcontainer-features", ".tgz">>]

\* rule 3: the github-repo source, tag <<>> when the identifier has no '@<tag>'
GitHubSource(owner, repo, tag) ==
    IF tag = <<>>
    THEN [Source("github-repo") EXCEPT
            !.owner = owner, !.repo = repo, !.isLatest = <<TRUE>>,
            !.apiUri = ApiRepos(owner, repo) \o <<"/", "releases", "/", "latest">>,
            !.unauthenticatedUri =
                GitHubRepo(owner, repo) \o <<"/", "releases", "/", "latest", "/", "download",
                                             "/", "devcontainer-features", ".tgz">>]
    ELSE [Source("github-repo") EXCEPT
            !.owner = owner, !.repo = repo, !.tag = tag, !.isLatest = <<FALSE>>,
            !.apiUri = ApiRepos(owner, repo) \o <<"/", "releases", "/", "tags", "/">> \o tag,
            !.unauthenticatedUri =
                GitHubRepo(owner, repo) \o <<"/", "releases", "/", "download", "/">> \o tag
                    \o <<"/", "devcontainer-features", ".tgz">>]

TarballSource(uri) == [Source("direct-tarball") EXCEPT !.tarballUri = uri]

FilePathSource(isRelative) == [Source("file-path") EXCEPT !.isRelative = <<isRelative>>]

\* the FeatureSet returned: its sourceInformation and the id of features[0]
Recognized(source, id) == [exists |-> TRUE, sourceInformation |-> source, featureId |-> id]

\* undefined
NotRecognized == [exists |-> FALSE, sourceInformation |-> Source("none"), featureId |-> <<>>]

\* rule 1: a string that contains '://' is a tarball URI or is rejected
ParseTarball(id) ==
    LET hash == LastIdx(id, "#")
        featureId == SubSeq(id, hash + 1, Len(id))
    IN  IF hash > 1 /\ id[hash - 1] = ".tgz" /\ ValidId(featureId)
        THEN Recognized(TarballSource(SubSeq(id, 1, hash - 1)), featureId)
        ELSE NotRecognized

\* rule 2: the trailing segment of a path is the feature id
ParseFilePath(id) ==
    LET segments == SplitOn(id, "/")
    IN  Recognized(FilePathSource(~StartsWith(id, <<"/">>)), segments[Len(segments)])

\* rules 3 to 5
ParseGitHubOrLocal(id) ==
    LET at == FirstIdx(id, "@")
        beforeAt == IF at = 0 THEN id ELSE SubSeq(id, 1, at - 1)
        tag == IF at = 0 THEN <<>> ELSE SubSeq(id, at + 1, Len(id))
        segments == SplitOn(beforeAt, "/")
    IN  IF /\ Len(segments) = 3
           /\ segments[1] # <<>> /\ segments[2] # <<>>
           /\ ValidId(segments[3])
           /\ (at = 0 \/ tag # <<>>)
        THEN Recognized(GitHubSource(segments[1], segments[2], tag), segments[3])
        ELSE IF ValidId(id)
        THEN Recognized(LocalCacheSource, id)
        ELSE NotRecognized

\* the rules, evaluated in order
parseFeatureIdentifier(id) ==
    IF "://" \in Range(id) THEN ParseTarball(id)
    ELSE IF \/ StartsWith(id, <<".", "/">>) \/ StartsWith(id, <<"..", "/">>)
            \/ StartsWith(id, <<"/">>)
    THEN ParseFilePath(id)
    ELSE ParseGitHubOrLocal(id)

\* ---- the identifiers of the tests ----

ExampleTgz ==
    <<"https", "://", "example.com", "/", "some", "/", "long", "/", "path", "/",
      "devcontainer-features", ".tgz">>

LongPathTo == <<"some", "/", "long", "/", "path", "/", "to", "/", "helloworld">>

\* lines 11-106: the valid cases, with the asserted result
ValidTests ==
    {[id |-> <<"helloworld">>,
      result |-> Recognized(LocalCacheSource, <<"helloworld">>)],
     [id |-> <<"octocat", "/", "myfeatures", "/", "helloworld">>,
      result |-> Recognized(
          [Source("github-repo") EXCEPT
              !.owner = <<"octocat">>, !.repo = <<"myfeatures">>, !.isLatest = <<TRUE>>,
              !.apiUri = <<"https", "://", "api.github.com", "/", "repos", "/", "octocat", "/",
                           "myfeatures", "/", "releases", "/", "latest">>,
              !.unauthenticatedUri =
                  <<"https", "://", "github.com", "/", "octocat", "/", "myfeatures", "/",
                    "releases", "/", "latest", "/", "download", "/",
                    "devcontainer-features", ".tgz">>],
          <<"helloworld">>)],
     [id |-> <<"octocat", "/", "myfeatures", "/", "helloworld", "@", "v0.0.4">>,
      result |-> Recognized(
          [Source("github-repo") EXCEPT
              !.owner = <<"octocat">>, !.repo = <<"myfeatures">>, !.tag = <<"v0.0.4">>,
              !.isLatest = <<FALSE>>,
              !.apiUri = <<"https", "://", "api.github.com", "/", "repos", "/", "octocat", "/",
                           "myfeatures", "/", "releases", "/", "tags", "/", "v0.0.4">>,
              !.unauthenticatedUri =
                  <<"https", "://", "github.com", "/", "octocat", "/", "myfeatures", "/",
                    "releases", "/", "download", "/", "v0.0.4", "/",
                    "devcontainer-features", ".tgz">>],
          <<"helloworld">>)],
     [id |-> ExampleTgz \o <<"#", "helloworld">>,
      result |-> Recognized(TarballSource(ExampleTgz), <<"helloworld">>)],
     [id |-> <<".", "/">> \o LongPathTo,
      result |-> Recognized(FilePathSource(TRUE), <<"helloworld">>)],
     [id |-> <<"..", "/">> \o LongPathTo,
      result |-> Recognized(FilePathSource(TRUE), <<"helloworld">>)],
     [id |-> <<"/">> \o LongPathTo,
      result |-> Recognized(FilePathSource(FALSE), <<"helloworld">>)]}

\* lines 108-199: the identifiers asserted not to parse
InvalidTests ==
    {ExampleTgz \o <<"/">>,
     <<"octocat", "/", "myfeatures", "#", "helloworld">>,
     ExampleTgz,
     ExampleTgz \o <<"#">>,
     <<"octocat", "/", "myfeatures", "#">>,
     <<"octocat", "/", "myfeatures">>,
     <<"octocat", "/", "myfeatures", "/", "@", "mycoolfeature">>,
     <<"octocat", "/", "myfeatures", "/", "MY_", "$", "UPER_COOL_FEATURE">>,
     <<"octocat", "/", "myfeatures", "@", "v0.0.1">>}

\* ---- inputs ----

Pieces == {"/", "@", "#", "://", ".tgz", "h", "-", "$"}

\* <owner>/<repo>/<id> and <owner>/<repo>/<id>@<tag>, the id well-formed or not
GitHubStyle(owner, repo, id, tag) ==
    owner \o <<"/">> \o repo \o <<"/">> \o id \o (IF tag = <<>> THEN <<>> ELSE <<"@">> \o tag)

Owners == {<<"octocat">>, <<"h">>}
Repos == {<<"myfeatures">>, <<"h", "-", "h">>}
FeatureIds == SeqsUpTo({"h", "-", "$"}, 2) \cup {<<"helloworld">>}
Tags == {<<>>, <<"v0.0.4">>, <<"h">>}

Identifiers ==
    SeqsUpTo(Pieces, MaxIdLen)
    \cup {GitHubStyle(o, r, i, t) : o \in Owners, r \in Repos, i \in FeatureIds, t \in Tags}
    \cup {t.id : t \in ValidTests} \cup InvalidTests

\* ---- the state machine ----

ParseStart ==
    /\ identifier \in Identifiers
    /\ ppc = "start"
    /\ parsed = NotRecognized

ParseIdle ==
    /\ identifier = <<>>
    /\ ppc = "done"
    /\ parsed = NotRecognized

\* the call parseFeatureIdentifier(output, {id, options})
ParseCall ==
    /\ ParseFrame
    /\ ppc = "start"
    /\ parsed' = parseFeatureIdentifier(identifier)
    /\ ppc' = "done"
    /\ UNCHANGED identifier

-----------------------------------------------------------------------------
(* Several extendImage calls on one host, each with its own dstFolder and   *)
(* all with the one image store of the host's container engine. Of each     *)
(* call the model keeps the builder invocations: the content image build of *)
(* lines 223-245 and the main build of lines 77-83.                         *)

\* the dstFolder of build b, a folder of its own
HostDstFolder(b) == <<"/tmp/vsch/container-features", b>>

NoImage == <<>>

\* line 181 and line 234: the tag given to the content image of build b
ContentImageTag(b) == buildContentImageName

HostTags == {buildContentImageName}

HostStart ==
    /\ \E n \in 1..MaxBuilds :
          /\ hostBuildKit \in [1..n -> BOOLEAN]
          /\ hpc = [b \in 1..n |-> "envWritten"]
          /\ contentRead = [b \in 1..n |-> NoImage]
    /\ imageTags = [t \in HostTags |-> NoImage]

HostIdle ==
    /\ hostBuildKit = <<>>
    /\ hpc = <<>>
    /\ imageTags = <<>>
    /\ contentRead = <<>>

\* lines 224-244: in legacy mode the content image build is invoked, with
\* dstFolder as context; line 246: with BuildKit the build info is returned
HostContentBuildStart(b) ==
    /\ HostFrame
    /\ hpc[b] = "envWritten"
    /\ hpc' = [hpc EXCEPT ![b] = IF hostBuildKit[b] THEN "info" ELSE "contentBuild"]
    /\ UNCHANGED <<hostBuildKit, imageTags, contentRead>>

\* lines 231-244: 'build -t dev_container_feature_content_temp' ends: the
\* tag now names the image that holds the content of this build's dstFolder
HostContentBuildDone(b) ==
    /\ HostFrame
    /\ hpc[b] = "contentBuild"
    /\ imageTags' = [imageTags EXCEPT ![ContentImageTag(b)] = HostDstFolder(b)]
    /\ hpc' = [hpc EXCEPT ![b] = "info"]
    /\ UNCHANGED <<hostBuildKit, contentRead>>

\* lines 238-244: the content image build fails
HostContentBuildFails(b) ==
    /\ HostFrame
    /\ hpc[b] = "contentBuild"
    /\ hpc' = [hpc EXCEPT ![b] = "rejected"]
    /\ UNCHANGED <<hostBuildKit, imageTags, contentRead>>

\* lines 43-83: Dockerfile.extended is written and the main build invoked
HostMainBuildStart(b) ==
    /\ HostFrame
    /\ hpc[b] = "info"
    /\ hpc' = [hpc EXCEPT ![b] = "mainBuild"]
    /\ UNCHANGED <<hostBuildKit, imageTags, contentRead>>

\* lines 187 and 255: the main build resolves
\* dev_containers_feature_content_source: in legacy mode the image the
\* content tag names at that moment, with BuildKit the build context dstFolder
HostMainBuildReadsContent(b) ==
    /\ HostFrame
    /\ hpc[b] = "mainBuild"
    /\ contentRead' = [contentRead EXCEPT ![b] = IF hostBuildKit[b] THEN HostDstFolder(b)
                                                  ELSE imageTags[ContentImageTag(b)]]
    /\ hpc' = [hpc EXCEPT ![b] = "mainBuildRead"]
    /\ UNCHANGED <<hostBuildKit, imageTags>>

\* lines 77-84: the main build ends, extendImage returns
HostMainBuildDone(b) ==
    /\ HostFrame
    /\ hpc[b] = "mainBuildRead"
    /\ hpc' = [hpc EXCEPT ![b] = "done"]
    /\ UNCHANGED <<hostBuildKit, imageTags, contentRead>>

-----------------------------------------------------------------------------
(* containerFeatures.ts: updateRemoteUserUID, lines 306-341. A user name is *)
(* a string, the sequence of its characters; '' stands for an undefined or  *)
(* empty name.                                                              *)

Root == <<"r", "o", "o", "t">>

Digits == {"0", "1"}

\* /^\d+$/.test(user)
AllDigits(user) == user # <<>> /\ \A k \in 1..Len(user) : user[k] \in Digits

\* a || b
OrElse(a, b) == IF a # <<>> THEN a ELSE b

\* line 312
ImageUser(configUser) == OrElse(configUser, Root)

MutRemoteUserSkipsRunArgs(p) == OrElse(p.remoteUser, ImageUser(p.imageConfigUser))

\* line 313: config.remoteUser || runArgsUser || imageUser
RemoteUser(p) == OrElse(p.remoteUser, OrElse(p.runArgsUser, ImageUser(p.imageConfigUser)))

\* line 309: the condition of the first return
UpdateDisabled(p) ==
    \/ p.updateRemoteUserUIDDefault = "never"
    \/ ~ (IF p.updateRemoteUserUID \in {"true", "false"}
          THEN p.updateRemoteUserUID = "true"
          ELSE p.updateRemoteUserUIDDefault = "on")
    \/ ~ (p.platform = "linux" \/ (p.updateRemoteUserUIDOnMacOS /\ p.platform = "darwin"))

\* line 318, the name as the sequence of its parts
FixedImageName(name) ==
    <<IF StartsWithFolderImageName(name) THEN name ELSE folderImageName, "-uid">>

\* lines 324-334
UidBuildArgs(p) ==
    <<"build", "-f", "destDockerfile", "-t", FixedImageName(p.imageName),
      "--build-arg", <<"BASE_IMAGE=", p.imageName>>,
      "--build-arg", <<"REMOTE_USER=", RemoteUser(p)>>,
      "--build-arg", <<"IMAGE_USER=", ImageUser(p.imageConfigUser)>>,
      "dirname(destDockerfile)">>

UserNames == {<<>>, Root, <<"1">>, <<"1", "0">>, <<"a">>, <<"1", "a">>, <<"a", "1">>}

UidInputs ==
    [updateRemoteUserUIDDefault : {"never", "on", "off"},
     updateRemoteUserUID : {"true", "false", "undefined"},
     platform : {"linux", "darwin", "win32"},
     updateRemoteUserUIDOnMacOS : BOOLEAN,
     remoteUser : UserNames,
     runArgsUser : {<<>>, Root, <<"1", "0">>, <<"a">>},
     imageConfigUser : {<<>>, Root, <<"1">>, <<"1", "a">>},
     imageName : ImageNames,
     destBefore : {"missing", "full"}]

UidStart ==
    /\ uidParams \in UidInputs
    /\ upc = "start"
    /\ uidFiles = [tmp |-> "missing", dest |-> uidParams.destBefore]
    /\ uidBuilds = <<>>
    /\ uidResult = <<>>

UidIdle ==
    /\ uidParams = <<>>
    /\ upc = "done"
    /\ uidFiles = <<>>
    /\ uidBuilds = <<>>
    /\ uidResult = <<>>

\* lines 309-312: the first return, or imageDetails() is awaited
UidCheckSetting ==
    /\ UidFrame
    /\ upc = "start"
    /\ IF UpdateDisabled(uidParams)
       THEN /\ upc' = "done"
            /\ uidResult' = <<uidParams.imageName>>
       ELSE /\ upc' = "imageDetails"
            /\ UNCHANGED uidResult
    /\ UNCHANGED <<uidParams, uidFiles, uidBuilds>>

\* lines 312-322: the second return, or the temporary file's directory is
\* made and the write of the temporary file starts
UidCheckUser ==
    /\ UidFrame
    /\ upc = "imageDetails"
    /\ IF RemoteUser(uidParams) = Root \/ AllDigits(RemoteUser(uidParams))
       THEN /\ upc' = "done"
            /\ uidResult' = <<uidParams.imageName>>
            /\ UNCHANGED uidFiles
       ELSE /\ upc' = "write"
            /\ uidFiles' = [uidFiles EXCEPT !.tmp = "partial"]
            /\ UNCHANGED uidResult
    /\ UNCHANGED <<uidParams, uidBuilds>>

\* line 322: the write of tmpDockerfile completes
UidTmpWritten ==
    /\ UidFrame
    /\ upc = "write"
    /\ uidFiles' = [uidFiles EXCEPT !.tmp = "full"]
    /\ upc' = "rename"
    /\ UNCHANGED <<uidParams, uidBuilds, uidResult>>

\* line 323: rename(tmpDockerfile, destDockerfile)
UidRename ==
    /\ UidFrame
    /\ upc = "rename"
    /\ uidFiles' = [tmp |-> "missing", dest |-> uidFiles.tmp]
    /\ upc' = "renamed"
    /\ UNCHANGED <<uidParams, uidBuilds, uidResult>>

\* lines 324-335: the builder is invoked
UidBuildStart ==
    /\ UidFrame
    /\ upc = "renamed"
    /\ uidBuilds' = Append(uidBuilds, UidBuildArgs(uidParams))
    /\ upc' = "build"
    /\ UNCHANGED <<uidParams, uidFiles, uidResult>>

\* lines 335-336: the build ends, fixedImageName is returned
UidBuildDone ==
    /\ UidFrame
    /\ upc = "build"
    /\ uidResult' = FixedImageName(uidParams.imageName)
    /\ upc' = "done"
    /\ UNCHANGED <<uidParams, uidFiles, uidBuilds>>

\* line 335: the build fails, the error surfaces
UidBuildFails ==
    /\ UidFrame
    /\ upc = "build"
    /\ upc' = "rejected"
    /\ UNCHANGED <<uidParams, uidFiles, uidBuilds, uidResult>>

-----------------------------------------------------------------------------
(* Specifications *)

MergeInit == MergeStart /\ TestIdle /\ BuildIdle /\ ParseIdle /\ HostIdle /\ UidIdle

MergeNext == MergeCall1 \/ MergeCall2 \/ MergeKey \/ MergeReturn

SpecMerge == MergeInit /\ [][MergeNext]_vars

TestInit == TestStart /\ MergeIdle /\ BuildIdle /\ ParseIdle /\ HostIdle /\ UidIdle

TestNext == TestSplit \/ TestGenerateProject \/ TestLaunchDone \/ TestLaunchThrows \/ TestExit

SpecTest == TestInit /\ [][TestNext]_vars

ParseInit == ParseStart /\ MergeIdle /\ TestIdle /\ BuildIdle /\ HostIdle /\ UidIdle

ParseNext == ParseCall

SpecParse == ParseInit /\ [][ParseNext]_vars

HostInit == HostStart /\ MergeIdle /\ TestIdle /\ BuildIdle /\ ParseIdle /\ UidIdle

HostNext ==
    \/ \E b \in DOMAIN hpc : HostContentBuildStart(b)
    \/ \E b \in DOMAIN hpc : HostContentBuildDone(b)
    \/ \E b \in DOMAIN hpc : HostContentBuildFails(b)
    \/ \E b \in DOMAIN hpc : HostMainBuildStart(b)
    \/ \E b \in DOMAIN hpc : HostMainBuildReadsContent(b)
    \/ \E b \in DOMAIN hpc : HostMainBuildDone(b)

SpecHost == HostInit /\ [][HostNext]_vars

UidInit == UidStart /\ MergeIdle /\ TestIdle /\ BuildIdle /\ ParseIdle /\ HostIdle

UidNext ==
    \/ UidCheckSetting \/ UidCheckUser \/ UidTmpWritten \/ UidRename
    \/ UidBuildStart \/ UidBuildDone \/ UidBuildFails

SpecUid == UidInit /\ [][UidNext]_vars

\* extendImage, with the probes and the writes interleaved: every selected
\* feature is included and has a value
BuildKinds == {[id |-> id, included |-> TRUE, value |-> "latest", containerEnv |-> <<>>] :
                  id \in Ids}

BuildInit ==
    /\ BuildStart(Configs(BuildKinds, {DstFolder, ""}), BOOLEAN, {"vsc-ws-img"},
                  {FALSE}, {TRUE}, PayloadKinds)
    /\ MergeIdle /\ TestIdle /\ ParseIdle /\ HostIdle /\ UidIdle

BuildNext ==
    \/ ExtendStart \/ TarDone \/ TarFails
    \/ \E i \in 1..Len(chains) : ChainAwaitAcquire(i)
    \/ \E i \in 1..Len(chains) : ChainAwaitConfigure(i)
    \/ Synthesize
    \/ \E w \in pendingWrites : EnvWriteDone(w)
    \/ EnvWritesJoined
    \/ ContentFileWritten \/ ContentBuildDone \/ ContentBuildFails
    \/ ExtendedFileWritten \/ MainBuildStart \/ MkdirpDone
    \/ MainBuildDone \/ MainBuildFails

SpecBuild == BuildInit /\ [][BuildNext]_vars

\* The recipe as a function of the FeaturesConfig, the payloads on disk and
\* the build flags: the probes are answered in one step, then Synthesize is
\* applied.
ProbeAll ==
    /\ BuildFrame
    /\ bpc = "start"
    /\ featuresConfig.defined
    /\ chains' = MapSeq(featuresConfig.featureSets, LAMBDA fSet : RunChain(NewChain(fSet)))
    /\ completionOrder' = [i \in 1..Len(featuresConfig.featureSets) |-> i]
    /\ bpc' = "probes"
    /\ UNCHANGED <<buildInputs, buildStageScripts, featureBuildInfo, pendingWrites,
                   files, emptyTempDir, dockerLog, extendResult>>

StageKinds == {[id |-> id, included |-> inc, value |-> v, containerEnv |-> <<>>] :
                  id \in Ids, inc \in BOOLEAN, v \in {"latest", ""}}

StagesInit ==
    /\ BuildStart(Configs(StageKinds, {DstFolder}) \ {NoConfig}, {TRUE}, {DefaultBaseImage},
                  BOOLEAN, BOOLEAN, PayloadKinds)
    /\ MergeIdle /\ TestIdle /\ ParseIdle /\ HostIdle /\ UidIdle

SynthNext == ProbeAll \/ Synthesize

SpecStages == StagesInit /\ [][SynthNext]_vars

EnvKinds == {[id |-> "x", included |-> inc, value |-> v, containerEnv |-> env] :
                inc \in BOOLEAN, v \in {"latest", ""}, env \in ContainerEnvs}

EnvsInit ==
    /\ BuildStart(Configs(EnvKinds, {DstFolder}) \ {NoConfig}, {TRUE}, {DefaultBaseImage},
                  BOOLEAN, {FALSE}, {"none"})
    /\ MergeIdle /\ TestIdle /\ ParseIdle /\ HostIdle /\ UidIdle

SpecEnvs == EnvsInit /\ [][SynthNext]_vars

PrefixInit ==
    /\ BuildStart(Configs(BuildKinds, {DstFolder}) \ {NoConfig}, BOOLEAN, ImageNames,
                  {FALSE}, {TRUE}, {"none", "both"})
    /\ MergeIdle /\ TestIdle /\ ParseIdle /\ HostIdle /\ UidIdle

SpecPrefix == PrefixInit /\ [][SynthNext]_vars

-----------------------------------------------------------------------------
(* Claims about the config merger, checked under SpecMerge *)

DocOf(outcome) == outcome[2]

\* Deep equality of two documents, whatever their property order.
DocEq(d1, d2) ==
    /\ Range(ObjectKeys(d1)) = Range(ObjectKeys(d2))
    /\ \A k \in Range(ObjectKeys(d1)) : Get(d1, k) = Get(d2, k)

UnionKeys == Range(ObjectKeys(docA)) \cup Range(ObjectKeys(docB))

\* C1: once merge(a, b) has resolved, every key of REPLACE behavior (in the
\* table or absent from it) maps in the result directly to the child's value,
\* a key the child has no value for is not in the result, and
\* merge({a:1, list:[1,2]}, {a:2, list:[2,3]}) is exactly {a:2, list:[1,2,3]}.
C1_ReplaceYieldsChildValue ==
    merged1[1] = "resolved" =>
        /\ \A k \in UnionKeys :
              BehaviorOf(k) = REPLACE =>
                  IF k \in Range(ObjectKeys(docB))
                  THEN /\ k \in Range(ObjectKeys(DocOf(merged1)))
                       /\ Get(DocOf(merged1), k) = Get(docB, k)
                  ELSE k \notin Range(ObjectKeys(DocOf(merged1)))
        /\ (/\ docA = <<<<"a", Num(1)>>, <<"list", Arr(<<1, 2>>)>>>>
            /\ docB = <<<<"a", Num(2)>>, <<"list", Arr(<<2, 3>>)>>>>)
           => DocEq(DocOf(merged1), <<<<"a", Num(2)>>, <<"list", Arr(<<1, 2, 3>>)>>>>)

\* C2: for documents a and b whose keys all have REPLACE behavior, the second
\* merge resolves and merge(a, merge(a, b)) equals merge(a, b).
C2_MergeIdempotentOnReplace ==
    (pass = 2 /\ mpc = "settled") =>
        /\ merged2[1] = "resolved"
        /\ DocEq(DocOf(merged2), DocOf(merged1))

\* u is the deduplicated union of p and c, parent first: no element twice,
\* exactly the elements of p and c, the elements of p in the order of their
\* first occurrence in p before the other elements of c, those in the order of
\* their first occurrence in c.
IsParentFirstUnion(u, p, c) ==
    /\ NoDup(u)
    /\ Range(u) = Range(p) \cup Range(c)
    /\ \A i, j \in 1..Len(u) :
          i < j =>
              /\ (u[j] \in Range(p) => u[i] \in Range(p))
              /\ (u[i] \in Range(p) /\ u[j] \in Range(p))
                    => FirstIdx(p, u[i]) < FirstIdx(p, u[j])
              /\ (u[i] \notin Range(p) /\ u[j] \notin Range(p))
                    => FirstIdx(c, u[i]) < FirstIdx(c, u[j])

MergedArrays(k) ==
    /\ pass = 1 /\ mpc = "loop" /\ curKey = k
    /\ BehaviorOf(k) = MERGE
    /\ IsArray(Get(docA, k)) /\ IsArray(Get(docB, k))

\* C3: for a key of MERGE behavior whose parent and child values are both
\* arrays, the merged value is an array holding every element of either array
\* exactly once, the parent's elements first in parent order, then the child's
\* elements not already present, in child order.
C3_MergeIsParentFirstUnion ==
    \A k \in UnionKeys :
        MergedArrays(k) =>
            /\ IsArray(outputValue)
            /\ IsParentFirstUnion(outputValue[2], Get(docA, k)[2], Get(docB, k)[2])

C3_Witness ==
    /\ MergedArrays("list")
    /\ Get(docA, "list") = Arr(<<1, 2>>)
    /\ Get(docB, "list") = Arr(<<2, 3>>)
    /\ outputValue = Arr(<<1, 2, 3>>)

BadMergeKey(k) ==
    /\ k \in UnionKeys
    /\ BehaviorOf(k) = MERGE
    /\ ~ (IsArray(Get(docA, k)) /\ IsArray(Get(docB, k)))

\* C4: if some key of MERGE behavior has a parent or a child value that is
\* not an array (the key being in only one document included), the merge never
\* resolves to a document, partial or not: its promise is rejected.
C4_NonArrayMergeRejects ==
    (pass = 1 /\ \E k \in UnionKeys : BadMergeKey(k)) =>
        /\ merged1 \in {Pending, Rejected}
        /\ (mpc = "settled" => merged1 = Rejected)

\* The key "list" is in the parent only, and "a" had already been merged
\* into the local document when the error was thrown.
C4_Witness ==
    /\ pass = 1 /\ mpc = "settled" /\ merged1 = Rejected
    /\ "list" \in Range(ObjectKeys(docA)) /\ "list" \notin Range(ObjectKeys(docB))
    /\ IsArray(Get(docA, "list"))
    /\ ResultingJSONDocument # <<>>

-----------------------------------------------------------------------------
(* Claims about the features test command, checked under SpecTest *)

\* C5: when no features are specified (the --features value is the empty
\* string) the command exits with status 1 without generating a project or
\* launching; and whenever it exits 0 the launch step has completed.
C5_NoFeaturesExitsOne ==
    /\ (commaSeparatedFeatures = <<>> /\ tpc # "start") =>
           /\ tpc = "exited" /\ exitCode = 1
           /\ devcontainerJson = <<>> /\ ~launched
    /\ (exitCode = 0 => launched)

-----------------------------------------------------------------------------
(* Claims about the synthesized recipe *)

\* getContainerFeaturesBuildInfo has computed the recipe
HasInfo ==
    \/ bpc \in {"envWrites", "contentFile", "contentBuild", "extendedFile", "tmpdir",
                "mainBuild"}
    \/ (bpc \in {"done", "rejected"} /\ dockerLog # <<>>)

LinesStarting(text, tok) == SelectSeq(text, LAMBDA l : Len(l) > 0 /\ l[1] = tok)

\* the names after 'as' of the FROM lines of a text
StageNamesIn(text) == MapSeq(LinesStarting(text, "FROM "), LAMBDA l : l[4])

\* the stages named by the COPY --from= lines of a text
CopyTargetsIn(text) == MapSeq(LinesStarting(text, "COPY --from="), LAMBDA l : l[2])

Count(seq, x) == Cardinality({k \in 1..Len(seq) : seq[k] = x})

\* the features of the FeaturesConfig, as (set index, feature index)
Occ ==
    {o \in (1..Len(featuresConfig.featureSets)) \X (1..MaxFeatures + 1) :
        o[2] <= Len(featuresConfig.featureSets[o[1]].features)}

SetAt(o) == featuresConfig.featureSets[o[1]]
FeatureAt(o) == SetAt(o).features[o[2]]
NameOf(o) == StageName(SetAt(o), FeatureAt(o))

\* the feature's directory holds bin/acquire
HasAcquireScript(o) ==
    <<getSourceInfoString(SetAt(o).sourceInformation), FeatureAt(o).id, "acquire">>
        \in scriptFiles

\* the feature is selected and its acquire script was probed and found
Staged(o) ==
    multiStageBuildExploration /\ Selected(FeatureAt(o)) /\ HasAcquireScript(o)

RecipeStageNames == StageNamesIn(featureBuildInfo.dockerfileContent.featureBuildStages)
RecipeCopyTargets == CopyTargetsIn(featureBuildInfo.dockerfileContent.copyFeatureBuildStages)

SelectedEnvEntries ==
    Flatten([i \in 1..Len(featuresConfig.featureSets) |->
                Flatten(MapSeq(SelectSeq(featuresConfig.featureSets[i].features, Selected),
                               LAMBDA f : f.containerEnv))])

NonEmptyLines(text) == SelectSeq(text, LAMBDA l : l # <<>>)

\* C7: the output of generateContainerEnvs has as many lines as the selected
\* features have containerEnv entries, one 'ENV K=V' line per entry in config
\* order, and no line holds two ENV instructions.
C7_OneEnvLinePerEntry ==
    bpc = "envWrites" =>
        LET envLines == NonEmptyLines(featureBuildInfo.dockerfileContent.containerEnv)
        IN  /\ Len(envLines) = Len(SelectedEnvEntries)
            /\ \A k \in 1..Len(envLines) : Count(envLines[k], "ENV ") <= 1
            /\ \A k \in 1..Len(envLines) :
                  k <= Len(SelectedEnvEntries)
                     => envLines[k] = EnvLine(SelectedEnvEntries[k])[1]

-----------------------------------------------------------------------------
(* Claims about extendImage, checked under SpecBuild *)

\* the stage names in config order: feature sets in the order of featureSets,
\* within a set the staged features in the order of its features list
ExpectedStageNames ==
    Flatten([i \in 1..Len(featuresConfig.featureSets) |->
                MapSeq(SelectSeq([j \in 1..Len(featuresConfig.featureSets[i].features) |->
                                     <<i, j>>], Staged),
                       NameOf)])

\* C8: whatever the order in which the probes answered and the env-file
\* writes completed, the build stages and the COPY --from entries of the
\* recipe, and of Dockerfile.extended once written, are in config order:
\* by feature set in the order of featureSets, within a set in the order of
\* its features list.
C8_StageOrderIsConfigOrder ==
    HasInfo =>
        /\ RecipeStageNames = ExpectedStageNames
        /\ RecipeCopyTargets = ExpectedStageNames
        /\ LET path == DockerfileExtendedPath(featuresConfig.dstFolder)
           IN  path \in DOMAIN files =>
                  /\ StageNamesIn(files[path].content.featureBuildStages) = ExpectedStageNames
                  /\ CopyTargetsIn(files[path].content.copyFeatureBuildStages)
                        = ExpectedStageNames

\* the chain of the second feature set ended before the chain of the first,
\* and an env-file write is still in flight
C8_Witness ==
    /\ bpc = "envWrites"
    /\ completionOrder = <<2, 1>>
    /\ Len(RecipeStageNames) = 2
    /\ RecipeStageNames[1] # RecipeStageNames[2]
    /\ pendingWrites # {} /\ files # <<>>

IsStart(e, what) == e.ev = "start" /\ e.what = what

\* C9: the main build gets the feature content by one mechanism. BuildKit:
\* the builder is invoked as 'buildx build --load' with exactly one
\* --build-context, dev_containers_feature_content_source=<dstFolder>, the
\* recipe has no content-image stage and no content image is ever built.
\* Legacy: the builder is invoked as 'build' with no --build-context, the
\* recipe takes the content from the content image, and before the main build
\* starts the content image has been built, from Dockerfile.buildContent
\* with dstFolder as context, and its build has exited with 0.
C9_OneContentMechanismPerBackend ==
    /\ useBuildKit => \A k \in DOMAIN dockerLog : dockerLog[k].what # "content"
    /\ \A k \in DOMAIN dockerLog :
          IsStart(dockerLog[k], "main") =>
              LET args == dockerLog[k].args
                  dst == featuresConfig.dstFolder
                  fallback == featureBuildInfo.dockerfileContent.nonBuildKitFeatureContentFallback
              IN  IF useBuildKit
                  THEN /\ SubSeq(args, 1, 3) = <<"buildx", "build", "--load">>
                       /\ Count(args, "--build-context") = 1
                       /\ \E a \in 1..Len(args) - 1 :
                             /\ args[a] = "--build-context"
                             /\ args[a + 1] = "dev_containers_feature_content_source=" \o dst
                       /\ fallback = EmptyText
                  ELSE /\ args[1] = "build"
                       /\ Count(args, "--build-context") = 0
                       /\ fallback # EmptyText
                       /\ \E m, n \in 1..k - 1 :
                             /\ m < n
                             /\ IsStart(dockerLog[m], "content")
                             /\ dockerLog[m].args
                                   = <<"build", "-t", buildContentImageName, "-f",
                                       dst \o "/Dockerfile.buildContent", dst>>
                             /\ dockerLog[n]
                                   = [ev |-> "exit", what |-> "content", args |-> <<"0">>]
                       /\ BuildContentDockerfilePath(dst) \in DOMAIN files

\* legacy mode, the main build has started
C9_Witness ==
    /\ ~useBuildKit
    /\ \E k \in DOMAIN dockerLog : IsStart(dockerLog[k], "main")
    /\ Len(RecipeStageNames) > 0

\* C11: while the main builder invocation of extendImage runs, the directory
\* passed to it as build context exists (the mkdirp that creates it has
\* completed).
C11_ContextDirExistsAtInvocation ==
    bpc = "mainBuild" => emptyTempDir = "exists"

\* every env-file write has completed
WritesJoined ==
    \/ bpc \in {"contentFile", "contentBuild", "extendedFile", "tmpdir", "mainBuild"}
    \/ (bpc \in {"done", "rejected"} /\ dockerLog # <<>>)

SourceOf(i) == getSourceInfoString(featuresConfig.featureSets[i].sourceInformation)

\* the FeaturesConfig has one feature set per source-info string
OneSetPerSource ==
    \A i, j \in 1..Len(featuresConfig.featureSets) : SourceOf(i) = SourceOf(j) => i = j

SetEnvPath(i) == <<featuresConfig.dstFolder, SourceOf(i), "devcontainer-features.env">>

FeatureEnvPath(o) ==
    <<featuresConfig.dstFolder, SourceOf(o[1]), "features", FeatureAt(o).id,
      "devcontainer-features.env">>

TargetPathLine(o) ==
    <<"_BUILD_ARG_", getFeatureSafeId(FeatureAt(o)), "_TARGETPATH=",
      "/usr/local/devcontainer-features/" \o SourceOf(o[1]) \o "/" \o FeatureAt(o).id>>

ProbeMade == \E i \in 1..Len(chains) : chains[i].sel # <<>>

\* every env-file write that getContainerFeaturesBuildInfo starts has
\* completed: none is pending and each path holds a written content
EnvFilesWritten ==
    /\ pendingWrites = {}
    /\ \A w \in EnvWrites(featuresConfig, buildStageScripts) :
          /\ w.path \in DOMAIN files
          /\ \E v \in EnvWrites(featuresConfig, buildStageScripts) :
                v.path = w.path /\ files[w.path] = v.content

Started(what) == {k \in DOMAIN dockerLog : IsStart(dockerLog[k], what)}

\* C16: the extraction of the local cache has ended before any probe is
\* made; every env-file write has completed before the content image build
\* starts; every env file and Dockerfile.extended are written before the
\* main builder is invoked; the main builder is invoked at most once.
C16_StepsInFixedOrder ==
    /\ ProbeMade => bpc \notin {"start", "tar"}
    /\ bpc \in {"start", "tar"} => (files = <<>> /\ dockerLog = <<>>)
    /\ Started("content") # {} => EnvFilesWritten
    /\ Started("main") # {} =>
          /\ EnvFilesWritten
          /\ DockerfileExtendedPath(featuresConfig.dstFolder) \in DOMAIN files
          /\ files[DockerfileExtendedPath(featuresConfig.dstFolder)]
                = [prefix |-> featureBuildInfo.dockerfilePrefixContent,
                   content |-> featureBuildInfo.dockerfileContent]
    /\ Cardinality(Started("main")) <= 1
    /\ Cardinality(Started("content")) <= 1

\* legacy mode, two env files written, both builders invoked
C16_Witness ==
    /\ Started("content") # {} /\ Started("main") # {}
    /\ ProbeMade
    /\ Cardinality(EnvWrites(featuresConfig, buildStageScripts)) >= 2
    /\ bpc = "done"

NothingToExtend == ~featuresConfig.defined \/ featuresConfig.dstFolder = ""

\* C17: when generateFeaturesConfig yields no features config, or one with an
\* empty dstFolder, extendImage returns the input imageName as
\* updatedImageName with collapsedFeaturesConfig undefined; no file is
\* written (no env file, no Dockerfile.buildContent, no Dockerfile.extended),
\* no probe is made, no builder is invoked and the empty context directory
\* is not created.
C17_NothingToExtendReturnsInput ==
    NothingToExtend =>
        /\ files = <<>> /\ dockerLog = <<>> /\ pendingWrites = {} /\ chains = <<>>
        /\ emptyTempDir = "missing"
        /\ bpc \in {"start", "done"}
        /\ bpc = "done" =>
              extendResult = [updatedImageName |-> imageName,
                              collapsedFeaturesConfig |-> "undefined"]

\* a features config with a feature set and an empty dstFolder
C17_Witness ==
    /\ bpc = "done"
    /\ featuresConfig.defined /\ featuresConfig.dstFolder = ""
    /\ Len(featuresConfig.featureSets) > 0
    /\ extendResult.updatedImageName = "vsc-ws-img"
    /\ scriptFiles # {}

-----------------------------------------------------------------------------
(* Claims about the recipe prefix, checked under SpecPrefix *)

ArgLines(prefix) == LinesStarting(prefix, "ARG ")

HasSyntaxDirective(prefix) == \E k \in 1..Len(prefix) : prefix[k] = <<SyntaxDirective>>

\* C10 as stated: the prefix holds the syntax directive exactly in BuildKit
\* mode, and its base-image line is _DEV_CONTAINERS_BASE_IMAGE=<baseName>.
C10_PrefixNamesBaseName ==
    bpc = "envWrites" =>
        /\ HasSyntaxDirective(featureBuildInfo.dockerfilePrefixContent) <=> useBuildKit
        /\ ArgLines(featureBuildInfo.dockerfilePrefixContent)
              = << <<"ARG ", "_DEV_CONTAINERS_BASE_IMAGE", "=", imageName>> >>

\* C10, amended: the prefix holds the syntax directive, as its first line,
\* exactly in BuildKit mode; its one ARG line declares
\* _DEV_CONTAINERS_BASE_IMAGE with the fixed default
\* mcr.microsoft.com/vscode/devcontainers/base:buster, whatever the baseName;
\* the caller's baseName is carried by the one buildArgs entry
\* _DEV_CONTAINERS_BASE_IMAGE of the returned build info.
C10_PrefixDefaultAndBuildArg ==
    bpc = "envWrites" =>
        LET prefix == featureBuildInfo.dockerfilePrefixContent
        IN  /\ HasSyntaxDirective(prefix) <=> useBuildKit
            /\ prefix[1] = (IF useBuildKit THEN <<SyntaxDirective>> ELSE <<>>)
            /\ ArgLines(prefix)
                  = << <<"ARG ", "_DEV_CONTAINERS_BASE_IMAGE", "=",
                         "mcr.microsoft.com/vscode/devcontainers/base:buster">> >>
            /\ SelectSeq(featureBuildInfo.buildArgs,
                         LAMBDA a : a[1] = "_DEV_CONTAINERS_BASE_IMAGE")
                  = << <<"_DEV_CONTAINERS_BASE_IMAGE", imageName>> >>

\* legacy mode and a baseName that is not the default of the ARG line
C10_Witness ==
    /\ bpc = "envWrites"
    /\ ~useBuildKit
    /\ imageName = "vsc-ws-img"
    /\ featureBuildInfo.buildArgs[1] = <<"_DEV_CONTAINERS_BASE_IMAGE", "vsc-ws-img">>

-----------------------------------------------------------------------------
(* Claims about concurrent builds on one host, checked under SpecHost *)

\* C15: the content image that the main build of a legacy-mode build reads
\* is the image built from that build's own dstFolder.
C15_MainBuildReadsOwnContent ==
    \A b \in DOMAIN hpc :
        (~hostBuildKit[b] /\ contentRead[b] # NoImage) => contentRead[b] = HostDstFolder(b)

-----------------------------------------------------------------------------
(* Claims about the identifier resolver, checked under SpecParse *)

\* a non-empty run of characters of [A-Za-z0-9_-]
WordSeq(x) == x # <<>> /\ \A k \in 1..Len(x) : x[k] \in IdPieces \cup {"-"}

\* an id of the valid-id charset, stated on the characters
WellFormedId(i) == WordSeq(i) /\ i[1] # "-"

\* C12: '<owner>/<repo>/<id>' with optional '@<tag>' parses to a github-repo
\* source with that owner and repo and the feature id <id>; tag is absent
\* exactly when isLatest is true; with a tag, apiUri ends in
\* /releases/tags/<tag>, unauthenticatedUri in
\* /releases/download/<tag>/devcontainer-features.tgz and isLatest is false;
\* without, they end in /releases/latest and
\* /releases/latest/download/devcontainer-features.tgz and isLatest is true.
\* The two GitHub identifiers of the tests parse to the asserted results.
C12_GitHubTagIffNotLatest ==
    ppc = "done" =>
        /\ \A o \in Owners, r \in Repos, i \in FeatureIds, t \in Tags :
              (identifier = GitHubStyle(o, r, i, t) /\ WellFormedId(i)) =>
                  LET src == parsed.sourceInformation
                  IN  /\ parsed.exists
                      /\ parsed.featureId = i
                      /\ src.type = "github-repo" /\ src.owner = o /\ src.repo = r
                      /\ (src.tag = <<>>) <=> (src.isLatest = <<TRUE>>)
                      /\ IF t = <<>>
                         THEN /\ src.tag = <<>> /\ src.isLatest = <<TRUE>>
                              /\ EndsWith(src.apiUri, <<"/", "releases", "/", "latest">>)
                              /\ EndsWith(src.unauthenticatedUri,
                                          <<"/", "releases", "/", "latest", "/", "download",
                                            "/", "devcontainer-features", ".tgz">>)
                         ELSE /\ src.tag = t /\ src.isLatest = <<FALSE>>
                              /\ EndsWith(src.apiUri, <<"/", "releases", "/", "tags", "/">> \o t)
                              /\ EndsWith(src.unauthenticatedUri,
                                          <<"/", "releases", "/", "download", "/">> \o t
                                            \o <<"/", "devcontainer-features", ".tgz">>)
        /\ \A t \in ValidTests :
              (identifier = t.id /\ t.result.sourceInformation.type = "github-repo")
                  => parsed = t.result

C12_Witness ==
    /\ ppc = "done"
    /\ identifier = <<"octocat", "/", "myfeatures", "/", "helloworld", "@", "v0.0.4">>
    /\ parsed.exists
    /\ parsed.sourceInformation.tag = <<"v0.0.4">>
    /\ parsed.sourceInformation.isLatest = <<FALSE>>

\* s is head followed by rest, rest being empty or opener and a word
HeadAndRest(s, k, openers) ==
    LET rest == SubSeq(s, k + 1, Len(s))
    IN  \/ rest = <<>>
        \/ /\ rest[1] \in openers
           /\ \A j \in 2..Len(rest) : rest[j] \in IdPieces \cup {"-", "v0.0.1", "v0.0.4"}

\* a tarball URI with a trailing slash, with no '#' or with an empty '#<id>'
MalformedTarball(s) ==
    /\ "://" \in Range(s)
    /\ \/ s[Len(s)] = "/" \/ "#" \notin Range(s) \/ s[Len(s)] = "#"

\* 'owner/repo', 'owner/repo#', 'owner/repo#<id>', 'owner/repo@<tag>'
TwoSegmentForm(s) ==
    \E k \in 1..Len(s) :
        LET segs == SplitOn(SubSeq(s, 1, k), "/")
        IN  /\ Len(segs) = 2 /\ WordSeq(segs[1]) /\ WordSeq(segs[2])
            /\ HeadAndRest(s, k, {"#", "@"})

\* 'owner/repo/<id>' with optional '@<tag>', the id empty or holding a
\* character outside [A-Za-z0-9_-]
ThreeSegmentBadId(s) ==
    \E k \in 1..Len(s) :
        LET segs == SplitOn(SubSeq(s, 1, k), "/")
        IN  /\ Len(segs) = 3 /\ WordSeq(segs[1]) /\ WordSeq(segs[2])
            /\ \A j \in 1..Len(segs[3]) : segs[3][j] \in IdPieces \cup {"-", "$"}
            /\ (segs[3] = <<>> \/ "$" \in Range(segs[3]))
            /\ HeadAndRest(s, k, {"@"})

\* C13: every identifier yields one FeatureSet (a source of one of the four
\* variants and a feature id) or the not-recognized result; the malformed
\* tarball URIs, the two-segment forms and the three-segment forms with an
\* empty or ill-formed id are not recognized, and neither is any of the nine
\* identifiers the tests assert not to parse.
C13_MalformedNotRecognized ==
    ppc = "done" =>
        /\ \/ parsed = NotRecognized
           \/ /\ parsed.exists
              /\ parsed.sourceInformation.type
                    \in {"local-cache", "github-repo", "direct-tarball", "file-path"}
        /\ (identifier # <<>>
              /\ (MalformedTarball(identifier) \/ TwoSegmentForm(identifier)
                     \/ ThreeSegmentBadId(identifier)))
           => parsed = NotRecognized
        /\ identifier \in InvalidTests => parsed = NotRecognized
        /\ \A t \in ValidTests :
              identifier = t.id =>
                  /\ parsed.exists /\ parsed.featureId = t.result.featureId
                  /\ parsed.sourceInformation.type = t.result.sourceInformation.type

C13_Witness ==
    /\ ppc = "done"
    /\ identifier = <<"octocat", "/", "myfeatures", "/", "MY_", "$", "UPER_COOL_FEATURE">>
    /\ ThreeSegmentBadId(identifier)
    /\ parsed = NotRecognized

-----------------------------------------------------------------------------
(* Claims about updateRemoteUserUID, checked under SpecUid *)

\* config.remoteUser, else runArgsUser, else the image user, else 'root'
ResolvedRemoteUser ==
    IF uidParams.remoteUser # <<>> THEN uidParams.remoteUser
    ELSE IF uidParams.runArgsUser # <<>> THEN uidParams.runArgsUser
    ELSE IF uidParams.imageConfigUser # <<>> THEN uidParams.imageConfigUser
    ELSE <<"r", "o", "o", "t">>

\* the cases in which the image is to be left alone
NoUidUpdate ==
    \/ uidParams.updateRemoteUserUIDDefault = "never"
    \/ uidParams.updateRemoteUserUID = "false"
    \/ (uidParams.updateRemoteUserUID = "undefined"
           /\ uidParams.updateRemoteUserUIDDefault # "on")
    \/ (uidParams.platform # "linux"
           /\ ~(uidParams.platform = "darwin" /\ uidParams.updateRemoteUserUIDOnMacOS))
    \/ ResolvedRemoteUser = <<"r", "o", "o", "t">>
    \/ (ResolvedRemoteUser # <<>>
           /\ \A k \in 1..Len(ResolvedRemoteUser) : ResolvedRemoteUser[k] \in {"0", "1"})

\* C18: when the default is 'never', the effective setting is off, the
\* platform is neither linux nor darwin with updateRemoteUserUIDOnMacOS, or
\* the resolved remote user is 'root' or all digits, updateRemoteUserUID
\* invokes no builder, writes no file and returns the input imageName; in
\* every other case, when it returns it has invoked the builder exactly once
\* and returns a name ending in '-uid'; the builder is never invoked twice,
\* the destination Dockerfile is never a partly written file, and when the
\* builder is invoked it is the fully written file renamed into place.
C18_UidUpdateOnlyWhenEnabled ==
    /\ NoUidUpdate =>
          /\ uidBuilds = <<>>
          /\ uidFiles = [tmp |-> "missing", dest |-> uidParams.destBefore]
          /\ upc \in {"start", "imageDetails", "done"}
          /\ upc = "done" => uidResult = <<uidParams.imageName>>
    /\ (~NoUidUpdate /\ upc = "done") =>
          /\ Len(uidBuilds) = 1
          /\ uidResult[Len(uidResult)] = "-uid"
          /\ uidBuilds[1][5] = uidResult
    /\ Len(uidBuilds) <= 1
    /\ uidFiles.dest # "partial"
    /\ uidBuilds # <<>> => uidFiles = [tmp |-> "missing", dest |-> "full"]

\* config.remoteUser is not set and the user of the run arguments is root:
\* the image is returned as it is, although the image user is not root
C18_Witness ==
    /\ upc = "done"
    /\ ~UpdateDisabled(uidParams)
    /\ uidParams.remoteUser = <<>> /\ uidParams.runArgsUser = Root
    /\ uidParams.imageConfigUser = <<"1", "a">>
    /\ uidResult = <<uidParams.imageName>>
    /\ uidBuilds = <<>>

=============================================================================
